---- MODULE Spec2Model ----
(***************************************************************************)
(* A model of the CrySL documentation pipeline's core:                     *)
(*   - the dependency resolver (collect_dependency_constraints,            *)
(*     collect_dependency_ensures) of llm/llm_writer.py and                *)
(*     llm/llm_code_writer_secure.py,                                      *)
(*   - the rule-section parsers (crysl_to_json_lines, three lenient        *)
(*     copies and one line-anchored copy),                                 *)
(*   - the embedding index and its cache (llm/paper_index.py,              *)
(*     llm/paper_index_ollama.py).                                         *)
(* Each component has its own specification over the shared variables;     *)
(* the variables of the other components keep their idle values.           *)
(***************************************************************************)
EXTENDS Integers, Sequences, FiniteSets, TLC

VARIABLES
    \* --- dependency resolver ---
    store,      \* the sanitized-rule files: class name -> file state
    target,     \* target_fqcn / primary_fqcn of the running call
    depth,      \* the depth argument of collect_dependency_ensures
    op,         \* which function runs: "none", "ensures", "constraints"
    pc,         \* "idle", "running", "done"
    stack,      \* the pending loops: one frame per active for-loop
    seen,       \* the visited set
    order,      \* deps_order / order
    dep_map,    \* dep_to_ensures / dep_to_constraints / dep_map
    visits,     \* history: the visit(fqcn, cur_depth) calls that got past the seen test
    resolver,   \* which copy of the resolver runs (the secure copy loads through a cache)
    dep_cache,       \* the records the rule cache holds, by class
    \* --- rule-section parser ---
    text,       \* crysl_text, a sequence of tokens
    parser,     \* which copy of crysl_to_json_lines ran
    parsed,     \* its result
    \* --- embedding index and cache ---
    cache,      \* the three artifacts of cache_dir
    idx,        \* the EmbeddingIndex object
    chunks,     \* the chunk list returned by build_pdf_index
    result,     \* the outcome of the last search
    call,       \* the last build_pdf_index call: its arguments and what it ran
    cache_origin, \* history: the (pdf_path, emb_model) of the call that wrote the cache
    \* --- chunker ---
    raw_text,   \* the extracted document text, a sequence of characters
    raw_chunks, \* the last _chunk_text call: its arguments and the list it returned
    \* --- sanitized-rule loader ---
    rule_files, \* the sanitized-rule files: (fqcn, lang) -> file state
    sanitized_cache, \* _SANITIZED_CACHE
    lookups,    \* history: how often the file of each (fqcn, lang) was looked up
    loaded,     \* the last load call: its arguments, result and stderr line
    \* --- process_rule, _normalize_listish, OllamaClient._post ---
    run,        \* the batch of process_rule calls and the outcome of the last one
    norm,       \* the last _normalize_listish call: its argument and result
    http        \* the running or last call of the HTTP client

depVars == <<store, target, depth, op, pc, stack, seen, order, dep_map, visits,
             resolver, dep_cache>>
parseVars == <<text, parser, parsed>>
indexVars == <<cache, idx, chunks, result, call, cache_origin>>
chunkVars == <<raw_text, raw_chunks>>
ruleVars == <<rule_files, sanitized_cache, lookups, loaded>>
auxVars == <<run, norm, http>>
vars == <<depVars, parseVars, indexVars, chunkVars, ruleVars, auxVars>>

(***************************************************************************)
(* Generic helpers                                                         *)
(***************************************************************************)
Range(s) == {s[i] : i \in 1..Len(s)}

SeqsUpTo(S, n) == UNION {[1..k -> S] : k \in 0..n}

Min(a, b) == IF a <= b THEN a ELSE b

NoDup(s) == \A i, j \in 1..Len(s) : i # j => s[i] # s[j]

(***************************************************************************)
(* Dependency resolver: data                                               *)
(***************************************************************************)
\* bounds: the dependency entries of the whole rule store, and the depth argument
MaxEdges == 3
MaxDepth == 2

Classes == {"A", "B", "C"}

\* JSON values of a record's fields
NoneVal == [t |-> "none"]
StrVal(s) == [t |-> "str", s |-> s]
ListVal(items) == [t |-> "list", items |-> items]


\* a rule file holds a JSON object, or is missing, or cannot be read or parsed
JsonFile(deps) ==
    [kind |-> "json", dependency |-> ListVal(deps),
     ensures |-> ListVal(<<"ens">>), constraints |-> ListVal(<<"con">>)]
MissingFile == [kind |-> "missing"]
UnreadableFile == [kind |-> "unreadable"]

\* the files whose dependency list has n entries (a file without record lists none)
FilesWithDeps(n) ==
    {JsonFile(d) : d \in [1..n -> Classes]}
        \cup (IF n = 0 THEN {MissingFile, UnreadableFile} ELSE {})

DeclaredDeps(file) == IF file.kind = "json" THEN file.dependency.items ELSE <<>>

\* the rule store whose files are fa, fb, fc
StoreOf(fa, fb, fc) ==
    [c \in Classes |-> IF c = "A" THEN fa ELSE IF c = "B" THEN fb ELSE fc]

\* Python's None, as load_json returns it
PyNone == [kind |-> "none"]


Get(rec, key) == IF key \in DOMAIN rec THEN rec[key] ELSE NoneVal

\* Python truthiness of a loaded record or of a field value
Truthy(v) ==
    IF "kind" \in DOMAIN v THEN v.kind = "json"
    ELSE IF v.t = "none" THEN FALSE
    ELSE IF v.t = "str" THEN v.s # ""
    ELSE v.items # <<>>

\* str.strip() on the strings of the rule store: names carry no blanks
BlankStrings == {"", " "}
Strip(s) == IF s \in BlankStrings THEN "" ELSE s

clean_item(s) == Strip(s)

load_json(c) ==
    IF c \in DOMAIN store /\ store[c].kind = "json" THEN store[c] ELSE PyNone

\* the two copies of the resolver: llm_writer.py reads the file at every load,
\* llm_code_writer_secure.py loads through _SANITIZED_CACHE
PlainResolver == "llm/llm_writer.py"
CachingResolver == "llm/llm_code_writer_secure.py"
EmptyMemo == [c \in {} |-> PyNone]

\* load_json(rule_path(fqcn, language)) or load_sanitized_rule(fqcn, languages)
CacheHit(c) == resolver = CachingResolver /\ c \in DOMAIN dep_cache
load_rule(c) == IF CacheHit(c) THEN dep_cache[c] ELSE load_json(c)

MemoAfterUnread(c) ==
    IF resolver = CachingResolver /\ c \notin DOMAIN dep_cache
    THEN [k \in DOMAIN dep_cache \cup {c} |-> IF k = c THEN PyNone ELSE dep_cache[k]]
    ELSE dep_cache
\* _SANITIZED_CACHE[key] = data, for a key the cache does not hold
MemoAfter(c) ==
    IF resolver = CachingResolver /\ c \notin DOMAIN dep_cache
    THEN [k \in DOMAIN dep_cache \cup {c} |-> IF k = c THEN load_json(c) ELSE dep_cache[k]]
    ELSE dep_cache

_normalize_listish(value) ==
    IF value.t = "none" THEN <<>>
    ELSE IF value.t = "list"
        THEN LET kept == SelectSeq(value.items, LAMBDA v : Strip(v) # "")
             IN [i \in 1..Len(kept) |-> clean_item(kept[i])]
    ELSE IF Strip(value.s) # "" THEN <<Strip(value.s)>> ELSE <<>>

\* `x.get("dependency") or []`, iterated
DependencyOrEmpty(rec) ==
    LET v == Get(rec, "dependency")
    IN IF Truthy(v) /\ v.t = "list" THEN v.items ELSE <<>>

\* the constraints of a dependency record (singular or plural key, scalar wrapped)
ExtractConstraints(rec) ==
    LET plural == Get(rec, "constraints")
        chosen == IF plural.t # "none" THEN plural ELSE Get(rec, "constraint")
        asList == IF chosen.t = "none" THEN <<>>
                  ELSE IF chosen.t = "list" THEN chosen.items
                  ELSE <<chosen.s>>
    IN [i \in 1..Len(asList) |-> clean_item(asList[i])]

EmptyMap == [c \in {} |-> <<>>]
MapPut(m, k, v) == [c \in DOMAIN m \cup {k} |-> IF c = k THEN v ELSE m[c]]

(***************************************************************************)
(* Dependency resolver: the decisions of the traversal                     *)
(***************************************************************************)
InitialSeenEmpty(fqcn) == {}
\* seen = {primary_fqcn}
InitialSeen(fqcn) == {fqcn}

ShouldRecurseInclusive(cur_depth, d) == cur_depth <= d
\* if cur_depth < depth
ShouldRecurse(cur_depth, d) == cur_depth < d

OrderAfterVisitNoDedup(fqcn, s, ord) == Append(ord, fqcn)
\* if fqcn in seen: return ... if fqcn not in deps_order: deps_order.append(fqcn)
OrderAfterVisit(fqcn, s, ord) ==
    IF fqcn \in s THEN ord
    ELSE IF fqcn \notin Range(ord) THEN Append(ord, fqcn) ELSE ord

MapAbsentOmitted(m, fqcn) == m
\* if not data: dep_to_ensures[fqcn] = []
MapAbsent(m, fqcn) == MapPut(m, fqcn, <<>>)

SkipDependencyKeepTarget(dep, t, s) == dep \in s
\* if dep == target_fqcn or dep in seen: continue
SkipDependency(dep, t, s) == dep = t \/ dep \in s

RootAcceptedInverted(dep) == dep = ""
\* for dep in roots: if isinstance(dep, str) and dep: visit(dep, 1)
RootAccepted(dep) == dep # ""

Frame(items, d, isRoot) == [items |-> items, i |-> 1, d |-> d, root |-> isRoot]

Advance(stk) == [stk EXCEPT ![Len(stk)].i = @ + 1]

\* leave every loop that has no item left
RECURSIVE Unwind(_)
Unwind(stk) ==
    IF stk = <<>> THEN stk
    ELSE IF stk[Len(stk)].i > Len(stk[Len(stk)].items)
        THEN Unwind(SubSeq(stk, 1, Len(stk) - 1))
    ELSE stk

PcAfter(stk) == IF stk = <<>> THEN "done" ELSE "running"

\* no resolution has started
IdleCall ==
    /\ target = "" /\ depth = 0 /\ op = "none" /\ pc = "idle"
    /\ stack = <<>> /\ seen = {} /\ order = <<>> /\ dep_map = EmptyMap
    /\ visits = <<>>

IdleDeps == IdleCall /\ resolver = PlainResolver /\ dep_cache = EmptyMemo

(***************************************************************************)
(* Dependency resolver: operations                                         *)
(***************************************************************************)
\* collect_dependency_ensures, up to the first visit
StartEnsures(t, d) ==
    /\ pc = "idle"
    /\ target' = t /\ depth' = d /\ op' = "ensures"
    /\ order' = <<>> /\ dep_map' = EmptyMap /\ visits' = <<>>
    /\ dep_cache' = MemoAfter(t)
    /\ LET primary == load_rule(t)
       IN IF ~Truthy(primary)
          THEN /\ stack' = <<>> /\ seen' = {} /\ pc' = "done"
          ELSE LET stk == Unwind(<<Frame(DependencyOrEmpty(primary), 1, TRUE)>>)
               IN /\ seen' = InitialSeen(t)
                  /\ stack' = stk
                  /\ pc' = PcAfter(stk)
    /\ UNCHANGED <<store, resolver, parseVars, indexVars, chunkVars, ruleVars, auxVars>>

\* one iteration of a loop of collect_dependency_ensures: visit(dep, cur_depth)
VisitStep ==
    /\ pc = "running" /\ op = "ensures"
    /\ LET top == stack[Len(stack)]
           dep == top.items[top.i]
           rest == Advance(stack)
       IN IF top.root /\ ~RootAccepted(dep)
          THEN /\ stack' = Unwind(rest)
               /\ UNCHANGED <<seen, order, dep_map, visits, dep_cache>>
          ELSE IF dep \in seen
          THEN /\ stack' = Unwind(rest)
               /\ order' = OrderAfterVisit(dep, seen, order)
               /\ UNCHANGED <<seen, dep_map, visits, dep_cache>>
          ELSE LET data == load_rule(dep)
                   expand == Truthy(data) /\ ShouldRecurse(top.d, depth)
               IN /\ seen' = seen \cup {dep}
                  /\ dep_cache' = MemoAfter(dep)
                  /\ order' = OrderAfterVisit(dep, seen, order)
                  /\ dep_map' = IF ~Truthy(data) THEN MapAbsent(dep_map, dep)
                                ELSE MapPut(dep_map, dep,
                                            _normalize_listish(Get(data, "ensures")))
                  /\ visits' = Append(visits, [fqcn |-> dep, cur_depth |-> top.d,
                                               expanded |-> expand,
                                               cached |-> CacheHit(dep)])
                  /\ stack' = Unwind(
                        IF expand
                        THEN Append(rest, Frame(_normalize_listish(Get(data, "dependency")),
                                                top.d + 1, FALSE))
                        ELSE rest)
    /\ pc' = PcAfter(stack')
    /\ UNCHANGED <<store, resolver, target, depth, op, parseVars, indexVars, chunkVars, ruleVars, auxVars>>

\* collect_dependency_constraints, up to the first loop iteration
StartConstraints(t) ==
    /\ pc = "idle"
    /\ target' = t /\ depth' = 1 /\ op' = "constraints"
    /\ order' = <<>> /\ dep_map' = EmptyMap /\ visits' = <<>> /\ seen' = {}
    /\ dep_cache' = MemoAfter(t)
    /\ LET primary == load_rule(t)
       IN IF ~Truthy(primary)
          THEN /\ stack' = <<>> /\ pc' = "done"
          ELSE LET stk == Unwind(<<Frame(DependencyOrEmpty(primary), 1, TRUE)>>)
               IN /\ stack' = stk
                  /\ pc' = PcAfter(stk)
    /\ UNCHANGED <<store, resolver, parseVars, indexVars, chunkVars, ruleVars, auxVars>>

\* one iteration of the loop of collect_dependency_constraints
ConstraintsStep ==
    /\ pc = "running" /\ op = "constraints"
    /\ LET top == stack[Len(stack)]
           dep == top.items[top.i]
           rest == Advance(stack)
       IN /\ stack' = Unwind(rest)
          /\ IF SkipDependency(dep, target, seen)
             THEN UNCHANGED <<seen, order, dep_map, visits, dep_cache>>
             ELSE LET data == load_rule(dep)
                  IN /\ seen' = seen \cup {dep}
                     /\ dep_cache' = MemoAfter(dep)
                     /\ order' = Append(order, dep)
                     /\ dep_map' = IF ~Truthy(data) THEN MapAbsent(dep_map, dep)
                                   ELSE MapPut(dep_map, dep, ExtractConstraints(data))
                     /\ visits' = Append(visits, [fqcn |-> dep, cur_depth |-> 1,
                                                  expanded |-> FALSE,
                                                  cached |-> CacheHit(dep)])
    /\ pc' = PcAfter(stack')
    /\ UNCHANGED <<store, resolver, target, depth, op, parseVars, indexVars, chunkVars, ruleVars, auxVars>>

\* the caller takes (order, map); the next call starts from fresh locals
ReturnDeps ==
    /\ pc = "done"
    /\ target' = "" /\ depth' = 0 /\ op' = "none" /\ pc' = "idle"
    /\ stack' = <<>> /\ seen' = {} /\ order' = <<>> /\ dep_map' = EmptyMap
    /\ visits' = <<>>
    /\ UNCHANGED <<store, resolver, dep_cache, parseVars, indexVars, chunkVars, ruleVars, auxVars>>


(***************************************************************************)
(* Idle values of the parser's and the index's variables                   *)
(***************************************************************************)
IdleParse == text = <<>> /\ parser = "none" /\ parsed = EmptyMap

\* an artifact of the cache directory: a file that exists, with its content, or none
AbsentFile == [present |-> FALSE, data |-> <<>>]
StoredFile(data) == [present |-> TRUE, data |-> data]

NoCache == [vectors |-> AbsentFile, ids |-> AbsentFile, chunks |-> AbsentFile]
\* EmbeddingIndex.__init__
NewIndex == [ids |-> <<>>, vectors |-> <<>>, built |-> FALSE]
NoResult == [kind |-> "none", k |-> 0, q |-> <<0, 0>>, hits |-> <<>>]
\* no call wrote the artifacts (cache_dir empty or filled by someone else)
NoOrigin == [pdf_path |-> "", emb_model |-> ""]
NoCall == [pdf_path |-> "", emb_model |-> "", extracted |-> FALSE, embedded |-> FALSE,
           source |-> NoOrigin]
IdleIndex ==
    /\ cache = NoCache /\ idx = NewIndex /\ chunks = <<>> /\ result = NoResult
    /\ call = NoCall /\ cache_origin = NoOrigin

NoChunks == [called |-> FALSE, max_chars |-> 0, overlap |-> 0, chunks |-> <<>>]
IdleChunk == raw_text = <<>> /\ raw_chunks = NoChunks

Languages == {"en", "de"}
RuleClasses == {"A", "B"}
RuleKeys == RuleClasses \X Languages
NotCached == [cached |-> FALSE, data |-> PyNone]
NoLoad == [fn |-> "none", fqcn |-> "", languages |-> <<>>, data |-> PyNone,
           raised |-> FALSE, stderr |-> <<>>, looked_up |-> <<>>]
NoRun == [variant |-> "none", file |-> "none", rag |-> FALSE, emb |-> "none",
          comp |-> "none", outcome |-> "none", stderr |-> <<>>,
          provider_raised |-> FALSE, done |-> 0]
NoNorm == [called |-> FALSE, value |-> NoneVal, out |-> <<>>]
NoHttp == [fn |-> "none", pc |-> "idle", path |-> "", attempt |-> 0, replies |-> <<>>,
           sleeps |-> <<>>, outcome |-> "none", value |-> "", error |-> "", posts |-> 0]
IdleAux == run = NoRun /\ norm = NoNorm /\ http = NoHttp

IdleRules ==
    /\ rule_files = [key \in RuleKeys |-> MissingFile]
    /\ sanitized_cache = [key \in RuleKeys |-> NotCached]
    /\ lookups = [key \in RuleKeys |-> 0]
    /\ loaded = NoLoad

(***************************************************************************)
(* Specification of the dependency resolver                                *)
(***************************************************************************)
InitDeps ==
    /\ \E la \in 0..MaxEdges : \E lb \in 0..(MaxEdges - la) :
         \E lc \in 0..(MaxEdges - la - lb) :
           \E fa \in FilesWithDeps(la), fb \in FilesWithDeps(lb), fc \in FilesWithDeps(lc) :
              store = StoreOf(fa, fb, fc)
    /\ IdleDeps
    /\ IdleParse
    /\ IdleIndex
    /\ IdleChunk
    /\ IdleRules
    /\ IdleAux

NextDeps ==
    \/ \E t \in Classes, d \in 1..MaxDepth : StartEnsures(t, d)
    \/ VisitStep
    \/ \E t \in Classes : StartConstraints(t)
    \/ ConstraintsStep
    \/ ReturnDeps

SpecDeps == InitDeps /\ [][NextDeps]_vars

\* a started call is never abandoned by the interpreter
FairSpecDeps == SpecDeps /\ WF_vars(VisitStep) /\ WF_vars(ConstraintsStep)


(***************************************************************************)
(* Specification of the resolver of llm_code_writer_secure.py, whose loads *)
(* go through _SANITIZED_CACHE for the life of the process                 *)
(***************************************************************************)
InitSecureDeps ==
    /\ \E la \in 0..MaxEdges : \E lb \in 0..(MaxEdges - la) :
         \E lc \in 0..(MaxEdges - la - lb) :
           \E fa \in FilesWithDeps(la), fb \in FilesWithDeps(lb), fc \in FilesWithDeps(lc) :
              store = StoreOf(fa, fb, fc)
    /\ IdleCall
    /\ resolver = CachingResolver /\ dep_cache = EmptyMemo
    /\ IdleParse
    /\ IdleIndex
    /\ IdleChunk
    /\ IdleRules
    /\ IdleAux

SpecSecureDeps == InitSecureDeps /\ [][NextDeps]_vars


(***************************************************************************)
(* Dependency resolver: what the claims speak about                        *)
(***************************************************************************)
HasRecord(c) == c \in DOMAIN store /\ store[c].kind = "json"

DepsOf(c) == IF c \in DOMAIN store THEN Range(DeclaredDeps(store[c])) ELSE {}

\* the classes within k dependency edges of t, through present records
RECURSIVE Within(_, _)
Within(t, k) ==
    IF k = 0 THEN {t}
    ELSE LET prev == Within(t, k - 1)
         IN prev \cup UNION {DepsOf(c) : c \in {x \in prev : HasRecord(x)}}

\* s without t and without repeated entries, first occurrences kept
RECURSIVE FirstSeen(_, _)
FirstSeen(s, t) ==
    IF s = <<>> THEN <<>>
    ELSE LET init == FirstSeen(SubSeq(s, 1, Len(s) - 1), t)
             last == s[Len(s)]
         IN IF last = t \/ last \in Range(init) THEN init ELSE Append(init, last)

EnsuresDone == pc = "done" /\ op = "ensures"
ConstraintsDone == pc = "done" /\ op = "constraints"

\* some class whose list was expanded lists the target: the graph loops back
CycleMet ==
    \E i \in 1..Len(visits) : visits[i].expanded /\ target \in DepsOf(visits[i].fqcn)

\* C1: from every rule store, cyclic ones included, and for every depth >= 1 a
\* started collect_dependency_ensures call reaches its return, and the target is
\* never in its order.
C1_EnsuresTerminatesWithoutTarget ==
    /\ (pc = "running" /\ op = "ensures") ~> (pc = "done" /\ op = "ensures")
    /\ [](op = "ensures" => target \notin Range(order))

C1_Witness ==
    /\ EnsuresDone /\ depth >= 2
    /\ target \in DepsOf(target)
    /\ CycleMet
    /\ Len(order) >= 1

\* C2: at every point of a collect_dependency_ensures call, and in its result, no
\* class name occurs twice in order.
C2_OrderHasNoDuplicates == op = "ensures" => NoDup(order)

\* a class listed twice in one list, and a class met again through another dependency
C2_Witness ==
    /\ EnsuresDone
    /\ \E c \in Range(order) :
          \E i, j \in 1..Len(DeclaredDeps(store[target])) :
             i # j /\ DeclaredDeps(store[target])[i] = c
                   /\ DeclaredDeps(store[target])[j] = c
    /\ \E c \in Range(order), i \in 1..Len(visits) :
          visits[i].expanded /\ c \in DepsOf(visits[i].fqcn) /\ c \in DepsOf(target)

C4_DepthBounded ==
    op = "ensures" =>
        /\ Range(order) \subseteq Within(target, depth)
        /\ depth = 1 => Range(order) \subseteq DepsOf(target)
        /\ \A i \in 1..Len(visits) : visits[i].expanded => visits[i].cur_depth < depth
        /\ \A i \in 1..Len(stack) : stack[i].d <= depth

\* depth 1 leaves a dependency's own dependency unlisted
C4_Witness ==
    /\ EnsuresDone /\ depth = 1
    /\ \E d \in Range(order) :
          HasRecord(d) /\ \E e \in DepsOf(d) : e # target /\ e \notin Range(order)

\* C5: collect_dependency_constraints returns the target's declared dependency
\* list without the target and without repeated entries, first occurrences kept,
\* and a map whose keys are the names in order; for an absent target record both
\* are empty.
C5_ConstraintsOrder ==
    ConstraintsDone =>
        IF HasRecord(target)
        THEN /\ order = FirstSeen(DeclaredDeps(store[target]), target)
             /\ DOMAIN dep_map = Range(order)
        ELSE order = <<>> /\ dep_map = EmptyMap

C5_Witness ==
    /\ ConstraintsDone /\ HasRecord(target)
    /\ target \in DepsOf(target)
    /\ Len(order) >= 1
    /\ Len(DeclaredDeps(store[target])) > Len(order) + 1


(***************************************************************************)
(* Rule-section parser: text                                               *)
(* A text is a sequence of tokens, written next to each other: a header    *)
(* word, another word, a blank, a line break or punctuation.  Two word     *)
(* tokens in a row spell one longer word.                                  *)
(***************************************************************************)
\* bound: the length of the enumerated texts
MaxTextLen == 5

\* sections = [...] of llm/llm_writer.py, llm/llm_writer_ollama.py, llm/llm_code_writer_secure.py
SectionsFull ==
    <<"SPEC", "OBJECTS", "EVENTS", "ORDER", "CONSTRAINTS", "REQUIRES", "ENSURES",
      "FORBIDDEN">>
\* sections = [...] of llm_writer.py
SectionsTopLevel ==
    <<"SPEC", "OBJECTS", "EVENTS", "ORDER", "CONSTRAINTS", "REQUIRES", "ENSURES">>

LlmWriter == "llm/llm_writer.py"
LlmWriterOllama == "llm/llm_writer_ollama.py"
TopLevelWriter == "llm_writer.py"
SecureWriter == "llm/llm_code_writer_secure.py"
LenientParsers == {LlmWriter, LlmWriterOllama, TopLevelWriter}
Parsers == LenientParsers \cup {SecureWriter}

SectionsOf(variant) ==
    IF variant = TopLevelWriter THEN SectionsTopLevel ELSE SectionsFull

HeaderWords == Range(SectionsFull)
OtherWords == {"k", "Key", "generateKey"}
WordTokens == HeaderWords \cup OtherWords     \* \w characters only
Newline == "\n"
Blank == " "
WhiteTokens == {Blank, Newline}               \* \s
Colon == ":"
PunctTokens == {Colon, "()"}

\* the tokens of the enumerated texts
Alphabet == {"SPEC", "FORBIDDEN", "k", Blank, Newline, Colon}

\* the scenario text of the parser's contract
ExampleText ==
    <<"OBJECTS", Newline, "Key", Blank, "k", Newline,
      "EVENTS", Newline, "generateKey", "()", Newline,
      "ORDER", Newline, "generateKey", Newline>>

\* a rule with indented lines, blank lines and a header followed by a colon
IndentedText ==
    <<"SPEC", Blank, "k", Blank, Newline, Newline, Blank, "k", Blank, "k", Blank, Newline,
      "ORDER", Colon, Blank, "k", Newline>>

\* a rule with text before the first header and a header word inside a sentence
ProseText ==
    <<"k", Newline, "SPEC", Blank, "k", Newline, "ENSURES", Newline, "k", Blank,
      "ORDER", Blank, "k", Newline, "ENSURES", Newline, "Key">>

ScenarioTexts == {ExampleText, IndentedText, ProseText}

(***************************************************************************)
(* Rule-section parser: the regular expressions                            *)
(***************************************************************************)
\* \b after the header word
WordEndsAt(txt, p) == p = Len(txt) \/ txt[p + 1] \notin WordTokens

\* \b before the header word (lenient), (?m)^ (line-anchored)
WordStartsAt(txt, p) == p = 1 \/ txt[p - 1] \notin WordTokens
LineStartsAt(txt, p) == p = 1 \/ txt[p - 1] = Newline

HeaderAtWordBoundary(txt, p, variant) ==
    /\ txt[p] \in Range(SectionsOf(variant))
    /\ WordStartsAt(txt, p)
    /\ WordEndsAt(txt, p)
HeaderAt(txt, p, variant) ==
    /\ txt[p] \in Range(SectionsOf(variant))
    /\ IF variant = SecureWriter THEN LineStartsAt(txt, p) ELSE WordStartsAt(txt, p)
    /\ WordEndsAt(txt, p)

\* \s*
RECURSIVE SkipWhite(_, _)
SkipWhite(txt, q) ==
    IF q <= Len(txt) /\ txt[q] \in WhiteTokens THEN SkipWhite(txt, q + 1) ELSE q

\* m.end(): the position after the match; the line-anchored pattern also takes \s*:?\s*
MatchEnd(txt, p, variant) ==
    IF variant = SecureWriter
    THEN LET q == SkipWhite(txt, p + 1)
         IN IF q <= Len(txt) /\ txt[q] = Colon THEN SkipWhite(txt, q + 1) ELSE q
    ELSE p + 1

\* list(pat.finditer(crysl_text)), scanning from position p
RECURSIVE finditer(_, _, _)
finditer(txt, p, variant) ==
    IF p > Len(txt) THEN <<>>
    ELSE IF HeaderAt(txt, p, variant)
        THEN LET e == MatchEnd(txt, p, variant)
             IN <<[header |-> txt[p], start |-> p, end |-> e]>> \o finditer(txt, e, variant)
    ELSE finditer(txt, p + 1, variant)

(***************************************************************************)
(* Rule-section parser: strings                                            *)
(***************************************************************************)
\* str.lstrip(), str.rstrip(), str.strip()
RECURSIVE LStrip(_)
LStrip(s) == IF s # <<>> /\ Head(s) \in WhiteTokens THEN LStrip(Tail(s)) ELSE s
RECURSIVE RStrip(_)
RStrip(s) ==
    IF s # <<>> /\ s[Len(s)] \in WhiteTokens THEN RStrip(SubSeq(s, 1, Len(s) - 1)) ELSE s
StripText(s) == RStrip(LStrip(s))

\* str.splitlines()
RECURSIVE splitlines(_)
splitlines(s) ==
    IF s = <<>> THEN <<>>
    ELSE IF \E i \in 1..Len(s) : s[i] = Newline
        THEN LET i == CHOOSE k \in 1..Len(s) :
                        s[k] = Newline /\ \A j \in 1..(k - 1) : s[j] # Newline
             IN <<SubSeq(s, 1, i - 1)>> \o splitlines(SubSeq(s, i + 1, Len(s)))
    ELSE <<s>>

SectionEndAtTextEnd(matches, i, txt) == Len(txt) + 1
\* end = matches[i + 1].start() if i + 1 < len(matches) else len(crysl_text)
SectionEnd(matches, i, txt) ==
    IF i + 1 <= Len(matches) THEN matches[i + 1].start ELSE Len(txt) + 1

SectionLinesUntrimmed(txt, from, to) ==
    SelectSeq(splitlines(StripText(SubSeq(txt, from, to - 1))),
              LAMBDA l : StripText(l) # <<>>)
\* raw_lines = crysl_text[start:end].strip().splitlines()
\* lines = [line.strip() for line in raw_lines if line.strip()]
SectionLines(txt, from, to) ==
    LET raw_lines == splitlines(StripText(SubSeq(txt, from, to - 1)))
        kept == SelectSeq(raw_lines, LAMBDA l : StripText(l) # <<>>)
    IN [n \in 1..Len(kept) |-> StripText(kept[n])]

PutSectionMerged(out, header, lines) ==
    IF header \in DOMAIN out THEN MapPut(out, header, out[header] \o lines)
    ELSE MapPut(out, header, lines)
\* out[header] = lines
PutSection(out, header, lines) == MapPut(out, header, lines)

\* the loop over the matches, from match i on
RECURSIVE FillSections(_, _, _, _)
FillSections(txt, matches, i, out) ==
    IF i > Len(matches) THEN out
    ELSE FillSections(txt, matches, i + 1,
            PutSection(out, matches[i].header,
                       SectionLines(txt, matches[i].end, SectionEnd(matches, i, txt))))

crysl_to_json_lines(txt, variant) ==
    FillSections(txt, finditer(txt, 1, variant), 1, EmptyMap)

(***************************************************************************)
(* Specification of the rule-section parser                                *)
(***************************************************************************)
\* a caller parses the rule text with one of the four copies of the parser
Parse(variant) ==
    /\ parser = "none"
    /\ parser' = variant
    /\ parsed' = crysl_to_json_lines(text, variant)
    /\ UNCHANGED <<text, depVars, indexVars, chunkVars, ruleVars, auxVars>>

\* the caller drops the result
ForgetParse ==
    /\ parser # "none"
    /\ parser' = "none"
    /\ parsed' = EmptyMap
    /\ UNCHANGED <<text, depVars, indexVars, chunkVars, ruleVars, auxVars>>

InitParse ==
    /\ text \in SeqsUpTo(Alphabet, MaxTextLen) \cup ScenarioTexts
    /\ parser = "none" /\ parsed = EmptyMap
    /\ store = StoreOf(MissingFile, MissingFile, MissingFile)
    /\ IdleDeps
    /\ IdleIndex
    /\ IdleChunk
    /\ IdleRules
    /\ IdleAux

NextParse ==
    \/ \E variant \in Parsers : Parse(variant)
    \/ ForgetParse

SpecParse == InitParse /\ [][NextParse]_vars


(***************************************************************************)
(* Rule-section parser: what the claims speak about                        *)
(***************************************************************************)
Matches == finditer(text, 1, parser)

NoHeaderRepeated(ms) == \A i, j \in 1..Len(ms) : i # j => ms[i].header # ms[j].header

\* where the section of match i stops: at the next header, or at the end of the text
NextHeaderStart(ms, i) == IF i < Len(ms) THEN ms[i + 1].start ELSE Len(text) + 1

\* <<s, e>>: text[s..e] is one line of text[from..to-1] without the blanks around it
IsTrimmedLine(txt, from, to, s, e) ==
    /\ from <= s /\ s <= e /\ e < to
    /\ \A q \in s..e : txt[q] # Newline
    /\ txt[s] # Blank /\ txt[e] # Blank
    /\ \A q \in from..(s - 1) : (\A r \in q..(s - 1) : txt[r] # Newline) => txt[q] = Blank
    /\ \A q \in (e + 1)..(to - 1) : (\A r \in (e + 1)..q : txt[r] # Newline) => txt[q] = Blank

TrimmedLineSpans(txt, from, to) ==
    {sp \in (from..(to - 1)) \X (from..(to - 1)) : IsTrimmedLine(txt, from, to, sp[1], sp[2])}

RECURSIVE SpansInOrder(_)
SpansInOrder(S) ==
    IF S = {} THEN <<>>
    ELSE LET first == CHOOSE sp \in S : \A other \in S : sp[1] <= other[1]
         IN <<first>> \o SpansInOrder(S \ {first})

\* the trimmed, non-empty lines of text[from..to-1], in order
TrimmedLines(txt, from, to) ==
    LET spans == SpansInOrder(TrimmedLineSpans(txt, from, to))
    IN [n \in 1..Len(spans) |-> SubSeq(txt, spans[n][1], spans[n][2])]

ExampleSections ==
    [h \in {"OBJECTS", "EVENTS", "ORDER"} |->
        IF h = "OBJECTS" THEN << <<"Key", Blank, "k">> >>
        ELSE IF h = "EVENTS" THEN << <<"generateKey", "()">> >>
        ELSE << <<"generateKey">> >>]

\* C6: for a text whose recognized headers H1..Hn (n >= 0) are all different,
\* crysl_to_json_lines returns a mapping with exactly the keys H1..Hn, each mapped to
\* the trimmed non-empty lines between the end of its header token and the next
\* header (or the end of the text); the empty text gives the empty mapping; the
\* scenario text gives OBJECTS -> [Key k], EVENTS -> [generateKey()],
\* ORDER -> [generateKey].
C6_HeadersToTrimmedLines ==
    parser \in {LlmWriter, LlmWriterOllama, SecureWriter} =>
        /\ NoHeaderRepeated(Matches) =>
              /\ DOMAIN parsed = {Matches[i].header : i \in 1..Len(Matches)}
              /\ \A i \in 1..Len(Matches) :
                    parsed[Matches[i].header] =
                        TrimmedLines(text, Matches[i].end, NextHeaderStart(Matches, i))
        /\ text = <<>> => parsed = EmptyMap
        /\ text = ExampleText => parsed = ExampleSections

C6_Witness ==
    /\ parser = LlmWriter
    /\ text = ExampleText
    /\ Len(Matches) = 3 /\ NoHeaderRepeated(Matches)
    /\ parsed["OBJECTS"] = << <<"Key", Blank, "k">> >>

\* the keys of the returned dict, in insertion order
RECURSIVE KeysInOrder(_)
KeysInOrder(ms) ==
    IF ms = <<>> THEN <<>>
    ELSE LET init == KeysInOrder(SubSeq(ms, 1, Len(ms) - 1))
             h == ms[Len(ms)].header
         IN IF h \in Range(init) THEN init ELSE Append(init, h)

RECURSIVE Flatten(_)
Flatten(seqs) == IF seqs = <<>> THEN <<>> ELSE Head(seqs) \o Flatten(Tail(seqs))

NonWhite(s) == SelectSeq(s, LAMBDA t : t \notin WhiteTokens)

\* all returned section bodies, concatenated in document order, whitespace removed
ReturnedContent ==
    LET keys == KeysInOrder(Matches)
    IN NonWhite(Flatten([n \in 1..Len(keys) |-> Flatten(parsed[keys[n]])]))

InsideMatch(ms, q) == \E i \in 1..Len(ms) : ms[i].start <= q /\ q < ms[i].end

\* text[from..], header tokens and whitespace removed
RECURSIVE ContentFrom(_, _, _)
ContentFrom(txt, ms, from) ==
    IF from > Len(txt) THEN <<>>
    ELSE (IF txt[from] \in WhiteTokens \/ InsideMatch(ms, from) THEN <<>> ELSE <<txt[from]>>)
            \o ContentFrom(txt, ms, from + 1)

RegionsContiguous(ms) ==
    \A i \in 1..Len(ms) :
        /\ ms[i].start < ms[i].end
        /\ ms[i].end <= SectionEnd(ms, i, text)
        /\ SectionEnd(ms, i, text) = NextHeaderStart(ms, i)

\* C7 as stated: for every input text the returned section bodies, concatenated in
\* document order, are the whole text without its header tokens and whitespace.
C7_Original_WholeTextReconstructed ==
    parser # "none" => ReturnedContent = ContentFrom(text, Matches, 1)

\* C7, amended: the regions (from the end of a header match to the start of the
\* next match or the end of the text) are contiguous and do not overlap, and when
\* no header is repeated the returned bodies, concatenated in document order, are
\* the text from the first header match on without header tokens and whitespace.
C7_RegionsReconstructTextAfterFirstHeader ==
    parser # "none" =>
        /\ RegionsContiguous(Matches)
        /\ NoHeaderRepeated(Matches) =>
              ReturnedContent =
                 IF Matches = <<>> THEN <<>>
                 ELSE ContentFrom(text, Matches, Matches[1].start)

\* text before the first header, and two sections after it
C7_Witness ==
    /\ parser = LlmWriter
    /\ Len(Matches) = 2 /\ NoHeaderRepeated(Matches)
    /\ Matches[1].start > 1
    /\ ContentFrom(text, Matches, 1) # ContentFrom(text, Matches, Matches[1].start)
    /\ ReturnedContent # <<>>

\* C8: every copy of the parser splits on the same 8 headers, the three lenient
\* copies return the same mapping for every text, and a FORBIDDEN header always
\* gets its own entry.
C8_LenientParsersAgree ==
    parser \in LenientParsers =>
        /\ parsed = crysl_to_json_lines(text, LlmWriter)
        /\ \A q \in 1..Len(text) :
              (text[q] = "FORBIDDEN" /\ WordStartsAt(text, q) /\ WordEndsAt(text, q))
                  => "FORBIDDEN" \in DOMAIN parsed


(***************************************************************************)
(* Embedding index: data                                                   *)
(* A vector is a pair of integers; the unit vector that faiss.normalize_L2 *)
(* makes of it is kept as the integer vector of the same direction, and    *)
(* cosine similarities are compared exactly.  Chunk id "C<i>" is written i.*)
(***************************************************************************)
\* bounds: the chunks of a document (and rows of an artifact), and the k of a search
MaxChunks == 2
MaxK == 3

Vectors == {<<0, 0>>, <<1, 0>>, <<1, 1>>}

OpenAIIndex == "llm/paper_index.py"
OllamaIndex == "llm/paper_index_ollama.py"

Dot(a, b) == a[1] * b[1] + a[2] * b[2]
SquaredNorm(a) == Dot(a, a)

\* chunks = [DocChunk(id=f"C{i}", text=t) for i, t in enumerate(raw_chunks)]
ChunkRecords(n) == [i \in 1..n |-> [id |-> i - 1]]
\* [c.id for c in chunks]
ChunkIds(records) == [i \in 1..Len(records) |-> records[i].id]

\* np.asarray(vectors, dtype="float32"): no row gives a one-dimensional array
AsArray(rows) == [rows |-> rows, twoDim |-> rows # <<>>]
\* np.load(vec_p): the matrix np.save wrote
LoadedArray(rows) == [rows |-> rows, twoDim |-> TRUE]

\* the cache directories a caller may hand to build_pdf_index
CacheDirs ==
    [vectors : {AbsentFile} \cup {StoredFile(r) : r \in SeqsUpTo(Vectors, MaxChunks)},
     ids : {AbsentFile} \cup {StoredFile(ChunkIds(ChunkRecords(n))) : n \in 0..MaxChunks},
     chunks : {AbsentFile} \cup {StoredFile(ChunkRecords(n)) : n \in 0..MaxChunks}]

(***************************************************************************)
(* Embedding index: EmbeddingIndex                                         *)
(***************************************************************************)
\* EmbeddingIndex.build: embeddings.shape[1] raises on a one-dimensional array
IndexBuild(embeddings, ids) ==
    IF ~embeddings.twoDim
    THEN [raised |-> TRUE, index |-> NewIndex]
    ELSE [raised |-> FALSE,
          index |-> [ids |-> ids, vectors |-> embeddings.rows, built |-> TRUE]]

\* the inner product without normalize_L2 on either side
ScoreUnnormalized(v, q) == [num |-> Dot(v, q), den2 |-> 1]

\* the similarity of row v to query q is Dot(v, q) / sqrt(den2)
Score(v, q) ==
    [num |-> Dot(v, q),
     den2 |-> (IF SquaredNorm(v) = 0 THEN 1 ELSE SquaredNorm(v))
                * (IF SquaredNorm(q) = 0 THEN 1 ELSE SquaredNorm(q))]

Signed(x) == IF x >= 0 THEN x * x ELSE -(x * x)
ScoreGE(a, b) == Signed(a.num) * b.den2 >= Signed(b.num) * a.den2

\* faiss IndexFlatIP.search for one query: the labels of the min(k, ntotal) rows
\* of largest inner product, best first (ties in any order); -1 labels fill up to k
FaissLabels(rows, q, k) ==
    LET n == Len(rows)
        m == Min(k, n)
    IN {sel \in [1..m -> 1..n] :
          /\ \A i, j \in 1..m : i # j => sel[i] # sel[j]
          /\ \A i, j \in 1..m : i < j => ScoreGE(Score(rows[sel[i]], q), Score(rows[sel[j]], q))
          /\ \A r \in 1..n : (\A i \in 1..m : sel[i] # r) =>
                \A i \in 1..m : ScoreGE(Score(rows[sel[i]], q), Score(rows[r], q))}

\* the outcomes of index.search(q, k): for k = 0 the faiss Python wrapper asserts
\* k > 0, older wrappers return arrays without columns
SearchOutcomes(k) == IF k = 0 THEN {"search_raised", "hits"} ELSE {"hits"}

\* [(self.ids[i], float(D[0][j])) for j, i in enumerate(I[0]) if i != -1]
HitsOf(index, q, labels) ==
    [j \in 1..Len(labels) |->
        [id |-> index.ids[labels[j]], row |-> labels[j],
         score |-> Score(index.vectors[labels[j]], q)]]

(***************************************************************************)
(* Embedding index: operations                                             *)
(***************************************************************************)
CacheComplete == cache.vectors.present /\ cache.ids.present /\ cache.chunks.present

\* _embed_texts: the OpenAI copy asks for one vector per text; the Ollama copy
\* takes whatever rows the one batched response holds and raises on none
EmbedRaises(variant, n, response) == variant = OllamaIndex /\ response = <<>>
ResponseFits(variant, n, response) == variant = OpenAIIndex => Len(response) = n

\* the provider is asked once per text by the OpenAI copy, once in all by the other
ProviderCalled(variant, n) == variant = OllamaIndex \/ n > 0

\* the artifacts of cache_dir after a build that raised: the three writes come last
CacheWrittenFirst(records, response) ==
    [vectors |-> StoredFile(response), ids |-> StoredFile(ChunkIds(records)),
     chunks |-> StoredFile(records)]
CacheAfterRaise(records, response) == cache

DefaultPdf == "paper.pdf"
DefaultModel == "text-embedding-3-small"

\* build_pdf_index(pdf_path, cache_dir, emb_model) for a document of n chunks
BuildPdfIndexFor(pdf_path, emb_model, variant, n, response) ==
    /\ ResponseFits(variant, n, response)
    /\ IF CacheComplete
       THEN LET built == IndexBuild(LoadedArray(cache.vectors.data), cache.ids.data)
            IN /\ idx' = built.index
               /\ chunks' = cache.chunks.data
               /\ result' = [NoResult EXCEPT !.kind = "built"]
               /\ call' = [pdf_path |-> pdf_path, emb_model |-> emb_model,
                           extracted |-> FALSE, embedded |-> FALSE,
                           source |-> cache_origin]
               /\ UNCHANGED <<cache, cache_origin>>
       ELSE LET records == ChunkRecords(n)
                built == IndexBuild(AsArray(response), ChunkIds(records))
                asked == [pdf_path |-> pdf_path, emb_model |-> emb_model]
            IN IF EmbedRaises(variant, n, response) \/ built.raised
               THEN /\ result' = [NoResult EXCEPT !.kind = "build_raised"]
                    /\ cache' = CacheAfterRaise(records, response)
                    /\ call' = [pdf_path |-> pdf_path, emb_model |-> emb_model,
                                extracted |-> TRUE,
                                embedded |-> ProviderCalled(variant, n),
                                source |-> NoOrigin]
                    /\ UNCHANGED <<idx, chunks, cache_origin>>
               ELSE /\ idx' = built.index
                    /\ chunks' = records
                    /\ cache' = [vectors |-> StoredFile(response),
                                 ids |-> StoredFile(ChunkIds(records)),
                                 chunks |-> StoredFile(records)]
                    /\ cache_origin' = asked
                    /\ call' = [pdf_path |-> pdf_path, emb_model |-> emb_model,
                                extracted |-> TRUE,
                                embedded |-> ProviderCalled(variant, n),
                                source |-> asked]
                    /\ result' = [NoResult EXCEPT !.kind = "built"]
    /\ UNCHANGED <<depVars, parseVars, chunkVars, ruleVars, auxVars>>

BuildPdfIndex(variant, n, response) ==
    BuildPdfIndexFor(DefaultPdf, DefaultModel, variant, n, response)

\* EmbeddingIndex.search(vec, k) on the index the last build returned
Search(q, k) ==
    /\ idx.built
    /\ \E labels \in FaissLabels(idx.vectors, q, k), outcome \in SearchOutcomes(k) :
          LET raises == \/ outcome = "search_raised"
                        \/ \E j \in 1..Len(labels) : labels[j] > Len(idx.ids)
          IN result' = IF raises
                       THEN [kind |-> "search_raised", k |-> k, q |-> q, hits |-> <<>>]
                       ELSE [kind |-> "hits", k |-> k, q |-> q,
                             hits |-> HitsOf(idx, q, labels)]
    /\ UNCHANGED <<cache, idx, chunks, call, cache_origin, depVars, parseVars,
                    chunkVars, ruleVars, auxVars>>

\* the document and the provider are consulted only when the cache is incomplete
DocumentSizes == IF CacheComplete THEN {0} ELSE 0..MaxChunks
ProviderResponses == IF CacheComplete THEN {<<>>} ELSE SeqsUpTo(Vectors, MaxChunks)

InitIndex ==
    /\ cache \in CacheDirs
    /\ idx = NewIndex /\ chunks = <<>> /\ result = NoResult
    /\ call = NoCall /\ cache_origin = NoOrigin
    /\ store = StoreOf(MissingFile, MissingFile, MissingFile)
    /\ IdleDeps
    /\ IdleParse
    /\ IdleChunk
    /\ IdleRules
    /\ IdleAux

NextIndex ==
    \/ \E variant \in {OpenAIIndex, OllamaIndex}, n \in DocumentSizes,
          response \in ProviderResponses : BuildPdfIndex(variant, n, response)
    \/ \E q \in Vectors, k \in 0..MaxK : Search(q, k)

SpecIndex == InitIndex /\ [][NextIndex]_vars

(***************************************************************************)
(* The cache directory across calls for several documents and models       *)
(***************************************************************************)
Pdfs == {"paper.pdf", "other.pdf"}
Models == {"text-embedding-3-small", "nomic-embed-text"}

InitCache ==
    /\ cache = NoCache
    /\ idx = NewIndex /\ chunks = <<>> /\ result = NoResult
    /\ call = NoCall /\ cache_origin = NoOrigin
    /\ store = StoreOf(MissingFile, MissingFile, MissingFile)
    /\ IdleDeps
    /\ IdleParse
    /\ IdleChunk
    /\ IdleRules
    /\ IdleAux

NextCache ==
    \E pdf_path \in Pdfs, emb_model \in Models, variant \in {OpenAIIndex, OllamaIndex},
       n \in DocumentSizes, response \in ProviderResponses :
          BuildPdfIndexFor(pdf_path, emb_model, variant, n, response)

SpecCache == InitCache /\ [][NextCache]_vars


(***************************************************************************)
(* Chunker: _chunk_text of llm/paper_index.py and llm/paper_index_ollama.py *)
(***************************************************************************)
\* bounds: the length of the text, the largest max_chars and the largest overlap
MaxRawLen == 5
MaxBudget == 6
MaxOverlap == 2

Chars == {"a", Blank, Newline}

\* str.split(sep)
RECURSIVE SplitOn(_, _)
SplitOn(s, sep) ==
    IF \E i \in 1..Len(s) : s[i] = sep
    THEN LET i == CHOOSE k \in 1..Len(s) : s[k] = sep /\ \A j \in 1..(k - 1) : s[j] # sep
         IN <<SubSeq(s, 1, i - 1)>> \o SplitOn(SubSeq(s, i + 1, Len(s)), sep)
    ELSE <<s>>

\* paragraphs = [p.strip() for p in text.split("\n") if p.strip()]
Paragraphs(txt) ==
    LET pieces == SplitOn(txt, Newline)
        stripped == [i \in 1..Len(pieces) |-> StripText(pieces[i])]
    IN SelectSeq(stripped, LAMBDA para : para # <<>>)

JoinParagraphUnstripped(buf, para) == buf \o <<Newline>> \o para
\* buf = (buf + "\n" + para).strip()
JoinParagraph(buf, para) == StripText(buf \o <<Newline>> \o para)

\* the first loop: greedy packing of the paragraphs
RECURSIVE Pack(_, _, _, _)
Pack(paras, buf, packed, max_chars) ==
    IF paras = <<>>
    THEN (IF buf # <<>> THEN Append(packed, buf) ELSE packed)
    ELSE LET para == Head(paras)
         IN IF Len(buf) + Len(para) + 1 <= max_chars
            THEN Pack(Tail(paras), JoinParagraph(buf, para), packed, max_chars)
            ELSE Pack(Tail(paras), para,
                      IF buf # <<>> THEN Append(packed, buf) ELSE packed, max_chars)

\* s[-overlap:], which is all of s for overlap = 0
LastChars(s, overlap) ==
    IF overlap = 0 \/ overlap >= Len(s) THEN s
    ELSE SubSeq(s, Len(s) - overlap + 1, Len(s))
\* s[:n]
FirstChars(s, n) == SubSeq(s, 1, Min(n, Len(s)))

\* the second loop: every chunk but the first gets the tail of its predecessor
RECURSIVE Merge(_, _, _, _)
Merge(packed, merged, max_chars, overlap) ==
    IF packed = <<>> THEN merged
    ELSE LET c == Head(packed)
         IN IF merged = <<>>
            THEN Merge(Tail(packed), <<c>>, max_chars, overlap)
            ELSE Merge(Tail(packed),
                       Append(merged,
                              FirstChars(LastChars(merged[Len(merged)], overlap)
                                            \o <<Newline>> \o c, max_chars)),
                       max_chars, overlap)

_chunk_text(txt, max_chars, overlap) ==
    Merge(Pack(Paragraphs(txt), <<>>, <<>>, max_chars), <<>>, max_chars, overlap)

ChunkText(max_chars, overlap) ==
    /\ ~raw_chunks.called
    /\ raw_chunks' = [called |-> TRUE, max_chars |-> max_chars, overlap |-> overlap,
                      chunks |-> _chunk_text(raw_text, max_chars, overlap)]
    /\ UNCHANGED <<raw_text, depVars, parseVars, indexVars, ruleVars, auxVars>>

\* the caller drops the list
ForgetChunks ==
    /\ raw_chunks.called
    /\ raw_chunks' = NoChunks
    /\ UNCHANGED <<raw_text, depVars, parseVars, indexVars, ruleVars, auxVars>>

InitChunk ==
    /\ raw_text \in SeqsUpTo(Chars, MaxRawLen)
    /\ raw_chunks = NoChunks
    /\ store = StoreOf(MissingFile, MissingFile, MissingFile)
    /\ IdleDeps
    /\ IdleParse
    /\ IdleIndex
    /\ IdleRules
    /\ IdleAux

NextChunk ==
    \/ \E max_chars \in 1..MaxBudget, overlap \in 0..MaxOverlap : ChunkText(max_chars, overlap)
    \/ ForgetChunks

SpecChunk == InitChunk /\ [][NextChunk]_vars

(***************************************************************************)
(* Sanitized-rule loader: load_json of llm/llm_writer.py, load_json_quiet   *)
(* and load_sanitized_rule of llm/llm_code_writer_secure.py                 *)
(***************************************************************************)
\* bound: the cap of the lookup counter
MaxLookups == 2

\* the languages arguments: every order of every selection of the languages
LanguageLists == {l \in SeqsUpTo(Languages, Cardinality(Languages)) : NoDup(l)}

\* a file that opens but whose content json.load rejects
MalformedFile == [kind |-> "malformed"]
\* the record stored for (fqcn, lang)
RuleRecord(key) == [kind |-> "json", fqcn |-> key[1], lang |-> key[2]]
FileStates(key) == {MissingFile, UnreadableFile, MalformedFile, RuleRecord(key)}

StderrLine(key, level) == [key |-> key, level |-> level]

\* load_json of llm_writer.py: FileNotFoundError and every other Exception are caught
LoadJson(file, key) ==
    IF file.kind = "json" THEN [data |-> file, raised |-> FALSE, stderr |-> <<>>]
    ELSE IF file.kind = "missing"
        THEN [data |-> PyNone, raised |-> FALSE, stderr |-> <<StderrLine(key, "WARN")>>]
    ELSE [data |-> PyNone, raised |-> FALSE, stderr |-> <<StderrLine(key, "ERROR")>>]

\* load_json_quiet without its except clause
load_json_quiet_uncaught(file, key) ==
    IF file.kind = "json" THEN [data |-> file, raised |-> FALSE, stderr |-> <<>>]
    ELSE IF file.kind = "missing" THEN [data |-> PyNone, raised |-> FALSE, stderr |-> <<>>]
    ELSE [data |-> PyNone, raised |-> TRUE, stderr |-> <<>>]

\* load_json_quiet: a path that does not exist returns None without a line
load_json_quiet(file, key) ==
    IF file.kind = "json" THEN [data |-> file, raised |-> FALSE, stderr |-> <<>>]
    ELSE IF file.kind = "missing" THEN [data |-> PyNone, raised |-> FALSE, stderr |-> <<>>]
    ELSE [data |-> PyNone, raised |-> FALSE, stderr |-> <<StderrLine(key, "WARN")>>]

RememberPresentOnly(data) ==
    IF data = PyNone THEN NotCached ELSE [cached |-> TRUE, data |-> data]
\* _SANITIZED_CACHE[key] = data, None included
Remember(data) == [cached |-> TRUE, data |-> data]

ReturnsCachedAlways(data) == TRUE
\* if data is not None: return data  (otherwise continue with the next language)
ReturnsCached(data) == data # PyNone

InCacheUnlessAbsent(memo, key) == memo[key].cached /\ memo[key].data # PyNone
\* if key in _SANITIZED_CACHE
InCache(memo, key) == memo[key].cached

\* the for loop of load_sanitized_rule over the languages still to try
RECURSIVE LoadLoop(_, _, _, _, _, _)
LoadLoop(fqcn, langs, memo, looks, err, read) ==
    IF langs = <<>>
    THEN [data |-> PyNone, raised |-> FALSE, memo |-> memo, lookups |-> looks,
          stderr |-> err, looked_up |-> read]
    ELSE LET key == <<fqcn, Head(langs)>>
         IN IF InCache(memo, key)
            THEN IF ReturnsCached(memo[key].data)
                 THEN [data |-> memo[key].data, raised |-> FALSE, memo |-> memo,
                       lookups |-> looks, stderr |-> err, looked_up |-> read]
                 ELSE LoadLoop(fqcn, Tail(langs), memo, looks, err, read)
            ELSE LET got == load_json_quiet(rule_files[key], key)
                     looks2 == [looks EXCEPT ![key] = @ + 1]
                     err2 == err \o got.stderr
                     read2 == Append(read, key)
                 IN IF got.raised
                    THEN [data |-> PyNone, raised |-> TRUE, memo |-> memo,
                          lookups |-> looks2, stderr |-> err2, looked_up |-> read2]
                    ELSE LET memo2 == [memo EXCEPT ![key] = Remember(got.data)]
                         IN IF got.data # PyNone
                            THEN [data |-> got.data, raised |-> FALSE, memo |-> memo2,
                                  lookups |-> looks2, stderr |-> err2,
                                  looked_up |-> read2]
                            ELSE LoadLoop(fqcn, Tail(langs), memo2, looks2, err2, read2)

load_sanitized_rule(fqcn, languages) ==
    LoadLoop(fqcn, languages, sanitized_cache, lookups, <<>>, <<>>)

LoadSanitizedRule(fqcn, languages) ==
    /\ \A key \in RuleKeys : lookups[key] < MaxLookups
    /\ LET out == load_sanitized_rule(fqcn, languages)
       IN /\ sanitized_cache' = out.memo
          /\ lookups' = out.lookups
          /\ loaded' = [fn |-> "load_sanitized_rule", fqcn |-> fqcn,
                        languages |-> languages, data |-> out.data,
                        raised |-> out.raised, stderr |-> out.stderr,
                        looked_up |-> out.looked_up]
    /\ UNCHANGED <<rule_files, depVars, parseVars, indexVars, chunkVars, auxVars>>

\* load_json(rule_path(fqcn, lang)) of llm_writer.py, which keeps no cache
LoadJsonCall(fqcn, lang) ==
    /\ LET key == <<fqcn, lang>>
           out == LoadJson(rule_files[key], key)
       IN loaded' = [fn |-> "load_json", fqcn |-> fqcn, languages |-> <<lang>>,
                     data |-> out.data, raised |-> out.raised, stderr |-> out.stderr,
                     looked_up |-> <<key>>]
    /\ UNCHANGED <<rule_files, sanitized_cache, lookups,
                   depVars, parseVars, indexVars, chunkVars, auxVars>>

\* the rule stores: every (fqcn, lang) file in one of its states
RuleStores ==
    {f \in [RuleKeys -> UNION {FileStates(key) : key \in RuleKeys}] :
        \A key \in RuleKeys : f[key] \in FileStates(key)}

InitRules ==
    /\ rule_files \in RuleStores
    /\ sanitized_cache = [key \in RuleKeys |-> NotCached]
    /\ lookups = [key \in RuleKeys |-> 0]
    /\ loaded = NoLoad
    /\ store = StoreOf(MissingFile, MissingFile, MissingFile)
    /\ IdleDeps
    /\ IdleParse
    /\ IdleIndex
    /\ IdleChunk
    /\ IdleAux

NextRules ==
    \/ \E fqcn \in RuleClasses, languages \in LanguageLists :
          LoadSanitizedRule(fqcn, languages)
    \/ \E fqcn \in RuleClasses, lang \in Languages : LoadJsonCall(fqcn, lang)

SpecRules == InitRules /\ [][NextRules]_vars

(***************************************************************************)
(* Embedding index: what the claims speak about                            *)
(***************************************************************************)
\* C9: in every reachable state of an EmbeddingIndex (after a build from fresh
\* embeddings, after a build from reloaded cache artifacts, after repeated builds)
\* the number of stored ids equals the number of stored vector rows.
C9_IdsMatchVectorRows == Len(idx.ids) = Len(idx.vectors)

SearchReturned == result.kind \in {"hits", "search_raised"}

IndexConsistent == idx.built /\ Len(idx.ids) = Len(idx.vectors)

HitsWellFormed ==
    /\ Len(result.hits) <= Min(result.k, Len(idx.vectors))
    /\ \A i, j \in 1..Len(result.hits) : i # j => result.hits[i].row # result.hits[j].row
    /\ \A i, j \in 1..Len(result.hits) :
          i < j => ScoreGE(result.hits[i].score, result.hits[j].score)
    /\ \A i \in 1..Len(result.hits) :
          /\ result.hits[i].row \in 1..Len(idx.vectors)
          /\ result.hits[i].id \in Range(idx.ids)

\* C10: on an index built from n vectors and n ids, search(q, k) returns at most
\* min(k, n) (id, score) pairs, each stored entry at most once, best score first,
\* every id one of the ids given to build; search(q, 0) returns the empty list.
C10_SearchReturnsAtMostK ==
    (SearchReturned /\ IndexConsistent) =>
        /\ result.kind = "hits"
        /\ HitsWellFormed
        /\ result.k = 0 => result.hits = <<>>

\* the same for k >= 1 only: the part of the search contract the code keeps
SearchContractForPositiveK ==
    (SearchReturned /\ IndexConsistent /\ result.k >= 1) =>
        result.kind = "hits" /\ HitsWellFormed


\* a call of build_pdf_index (OpenAI copy) on an incomplete cache for a document
\* that yields no chunk: _embed_texts makes no request and returns np.asarray([])
BuildFromNoChunks == ~CacheComplete /\ BuildPdfIndex(OpenAIIndex, 0, <<>>)

\* C11: building an EmbeddingIndex with zero vectors (build_pdf_index on a
\* document without chunks) does not raise, and an index holding zero vectors
\* answers every search with the empty list.
C11_ZeroVectorBuildNeverRaises ==
    /\ [][BuildFromNoChunks => result'.kind = "built"]_vars
    /\ []((SearchReturned /\ idx.built /\ idx.vectors = <<>>) =>
             (result.kind = "hits" /\ result.hits = <<>>))


\* the rows of the index that are the query itself
QueryRows == {i \in 1..Len(idx.vectors) : idx.vectors[i] = result.q}
\* similarity exactly 1: positive inner product whose square is the squared norms' product
IsOne(score) == score.num > 0 /\ score.num * score.num = score.den2
ParallelRows == {i \in 1..Len(idx.vectors) : IsOne(Score(idx.vectors[i], result.q))}
RoundTripSearch ==
    result.kind = "hits" /\ result.k >= 1 /\ IndexConsistent /\ QueryRows # {}

\* C12 as stated: searching with an exact row of V returns that row's own id at
\* rank 1 with similarity 1, also when V holds equal or parallel rows under
\* different ids.
C12_Original_OwnIdAtRankOne ==
    RoundTripSearch =>
        /\ result.hits # <<>>
        /\ IsOne(result.hits[1].score)
        /\ \A i \in QueryRows : result.hits[1].id = idx.ids[i]

\* C12: searching with an exact nonzero row of V returns at rank 1, with
\* similarity 1, the id of a stored row parallel to the query; it is the query
\* row's own id when no other stored row is parallel to it.
C12_RankOneIsParallelRow ==
    (RoundTripSearch /\ SquaredNorm(result.q) # 0) =>
        /\ result.hits # <<>>
        /\ IsOne(result.hits[1].score)
        /\ result.hits[1].row \in ParallelRows
        /\ result.hits[1].id = idx.ids[result.hits[1].row]
        /\ \A i \in QueryRows : ParallelRows = {i} => result.hits[1].id = idx.ids[i]

\* the second row of a two-row index was the query and came back first
C12_Witness ==
    /\ RoundTripSearch /\ SquaredNorm(result.q) # 0
    /\ Len(idx.vectors) = 2 /\ idx.vectors[1] # idx.vectors[2]
    /\ SquaredNorm(idx.vectors[1]) # 0
    /\ QueryRows = {2}
    /\ result.hits[1].id = idx.ids[2]


\* one call of build_pdf_index, of either copy
BuildStep ==
    \E variant \in {OpenAIIndex, OllamaIndex}, n \in DocumentSizes,
       response \in ProviderResponses : BuildPdfIndex(variant, n, response)

CacheLengthsEqual ==
    /\ Len(cache.vectors.data) = Len(cache.ids.data)
    /\ Len(cache.ids.data) = Len(cache.chunks.data)

\* C13: when the three cache artifacts are present but differ in length,
\* build_pdf_index behaves as on a cache miss: it does not raise and it does not
\* return the index and chunks of the inconsistent artifacts, what it returns
\* has as many ids as vector rows as chunks.
C13_InconsistentCacheIsRebuilt ==
    [][(BuildStep /\ CacheComplete /\ ~CacheLengthsEqual) =>
          /\ result'.kind = "built"
          /\ ~(/\ idx'.vectors = cache.vectors.data
               /\ idx'.ids = cache.ids.data
               /\ chunks' = cache.chunks.data)
          /\ Len(idx'.ids) = Len(idx'.vectors)
          /\ Len(chunks') = Len(idx'.ids)]_vars


\* one call of build_pdf_index for any document and model
BuildCall ==
    \E pdf_path \in Pdfs, emb_model \in Models, variant \in {OpenAIIndex, OllamaIndex},
       n \in DocumentSizes, response \in ProviderResponses :
          BuildPdfIndexFor(pdf_path, emb_model, variant, n, response)

\* C14: after any sequence of build_pdf_index calls on one cache directory, the
\* index and chunks returned for document D and model M were built from D with M.
C14_ReturnedIndexBelongsToCall ==
    result.kind = "built" =>
        call.source = [pdf_path |-> call.pdf_path, emb_model |-> call.emb_model]

\* C15: with the three artifacts present, build_pdf_index returns the index and
\* chunks reconstructed from them and calls neither the text extractor nor the
\* embedding provider; the artifacts change only in a call that obtained the
\* embeddings and built the index, which leaves all three present, so the call
\* after a build that returned extracts and embeds nothing.
C15_CacheHitSkipsExtractionAndEmbedding ==
    /\ [][(BuildCall /\ CacheComplete) =>
             /\ ~call'.extracted /\ ~call'.embedded
             /\ result'.kind = "built"
             /\ idx'.vectors = cache.vectors.data /\ idx'.ids = cache.ids.data
             /\ chunks' = cache.chunks.data
             /\ cache' = cache]_vars
    /\ [][(BuildCall /\ cache' # cache) =>
             /\ call'.extracted
             /\ result'.kind = "built"
             /\ idx'.built /\ cache'.vectors.data = idx'.vectors
             /\ CacheComplete']_vars
    /\ [](result.kind = "built" => CacheComplete)

\* a call answered from artifacts that an earlier call of this run wrote
C15_Witness ==
    /\ result.kind = "built" /\ ~call.extracted /\ ~call.embedded
    /\ cache_origin # NoOrigin /\ call.source = cache_origin
    /\ Len(idx.vectors) = MaxChunks


(***************************************************************************)
(* Chunker: what the claims speak about                                    *)
(***************************************************************************)
UnderBudget == raw_chunks.called /\ Len(raw_text) < raw_chunks.max_chars
HasText == \E i \in 1..Len(raw_text) : raw_text[i] \notin WhiteTokens

\* the non-blank lines of the text, each trimmed, one line break between them
RECURSIVE JoinLines(_)
JoinLines(lines) ==
    IF lines = <<>> THEN <<>>
    ELSE IF Len(lines) = 1 THEN lines[1]
    ELSE lines[1] \o <<Newline>> \o JoinLines(Tail(lines))
TrimmedNonBlankLines ==
    LET lines == SplitOn(raw_text, Newline)
    IN SelectSeq([i \in 1..Len(lines) |-> StripText(lines[i])], LAMBDA l : l # <<>>)
\* no blank line inside the trimmed text and no line with blanks at either end
LinesAreClean ==
    LET lines == SplitOn(StripText(raw_text), Newline)
    IN \A i \in 1..Len(lines) : lines[i] # <<>> /\ StripText(lines[i]) = lines[i]

\* C16 as stated: the empty text gives the empty list, every other text under
\* the max_chars budget gives one chunk equal to the trimmed text, blank lines
\* and blanks around lines included.
C16_Original_OneChunkEqualToTrimmedText ==
    /\ (raw_chunks.called /\ raw_text = <<>>) => raw_chunks.chunks = <<>>
    /\ (UnderBudget /\ raw_text # <<>>) => raw_chunks.chunks = <<StripText(raw_text)>>

\* C16: a text without a non-whitespace character gives the empty list; every
\* other text under the max_chars budget gives exactly one chunk, the non-blank
\* lines of the text, each trimmed, joined by one line break, which is the
\* trimmed text when it has no blank line and no line with blanks at its ends.
C16_OneChunkOfTrimmedLines ==
    /\ (raw_chunks.called /\ ~HasText) => raw_chunks.chunks = <<>>
    /\ (UnderBudget /\ HasText) =>
          /\ raw_chunks.chunks = <<JoinLines(TrimmedNonBlankLines)>>
          /\ LinesAreClean => raw_chunks.chunks = <<StripText(raw_text)>>

\* a text under the budget with a blank line between two lines
C16_Witness ==
    /\ UnderBudget /\ Len(raw_chunks.chunks) = 1
    /\ \E i \in 2..(Len(raw_text) - 2) :
          /\ raw_text[i] = Newline /\ raw_text[i + 1] = Newline
          /\ raw_text[i - 1] = "a" /\ raw_text[i + 2] = "a"

\* C17: every chunk _chunk_text returns has at most max_chars characters, for
\* every text, the first chunk and a single line longer than max_chars included.
C17_ChunksWithinBudget ==
    raw_chunks.called =>
        \A i \in 1..Len(raw_chunks.chunks) :
            Len(raw_chunks.chunks[i]) <= raw_chunks.max_chars

\* the chunks after the first are cut to max_chars
LaterChunksWithinBudget ==
    raw_chunks.called =>
        \A i \in 2..Len(raw_chunks.chunks) :
            Len(raw_chunks.chunks[i]) <= raw_chunks.max_chars


(***************************************************************************)
(* Sanitized-rule loader: what the claims speak about                      *)
(***************************************************************************)
HasRuleRecord(key) == rule_files[key].kind = "json"
\* the positions of the languages argument for which the class has a record
PresentAt(fqcn, languages) ==
    {i \in 1..Len(languages) : HasRuleRecord(<<fqcn, languages[i]>>)}
FirstOf(S) == CHOOSE i \in S : \A j \in S : i <= j

\* C18: load_sanitized_rule(class, ordered_languages) returns the record of the
\* first listed language for which the class has a record, and None exactly when
\* no listed language has one, whatever earlier calls left in the cache.
C18_FirstPresentLanguageWins ==
    loaded.fn = "load_sanitized_rule" =>
        LET at == PresentAt(loaded.fqcn, loaded.languages)
        IN IF at = {} THEN loaded.data = PyNone
           ELSE loaded.data = RuleRecord(<<loaded.fqcn, loaded.languages[FirstOf(at)]>>)

\* a call answered from the cache alone: absent for the first language, the
\* record of the second
C18_Witness ==
    /\ loaded.fn = "load_sanitized_rule" /\ loaded.languages = <<"en", "de">>
    /\ rule_files[<<loaded.fqcn, "en">>] = UnreadableFile
    /\ loaded.data = RuleRecord(<<loaded.fqcn, "de">>)
    /\ loaded.looked_up = <<>>
    /\ sanitized_cache[<<loaded.fqcn, "en">>] = Remember(PyNone)

\* C19: in one process the file of a (class, language) pair is looked up at most
\* once; once the pair is in the cache, also as absent, no call looks it up again.
C19_EachFileLookedUpAtMostOnce ==
    /\ [](\A key \in RuleKeys :
            /\ lookups[key] <= 1
            /\ sanitized_cache[key].cached <=> lookups[key] = 1)
    /\ [][\A key \in RuleKeys :
            sanitized_cache[key].cached => lookups'[key] = lookups[key]]_vars

\* a later call for a pair whose first lookup found no file reads nothing
C19_Witness ==
    /\ loaded.fn = "load_sanitized_rule" /\ loaded.languages # <<>>
    /\ loaded.looked_up = <<>> /\ loaded.data = PyNone
    /\ \A i \in 1..Len(loaded.languages) :
          /\ rule_files[<<loaded.fqcn, loaded.languages[i]>>] = MissingFile
          /\ lookups[<<loaded.fqcn, loaded.languages[i]>>] = 1

Reported(key) == \E i \in 1..Len(loaded.stderr) : loaded.stderr[i].key = key
LookedUp == Range(loaded.looked_up)
ListedKeys == {<<loaded.fqcn, loaded.languages[i]>> : i \in 1..Len(loaded.languages)}

FreshAcc(t) == [seen |-> {t}, order |-> <<>>, map |-> EmptyMap]

\* what visit(fqcn, cur) and the loops below it do to locals that no earlier
\* call has touched, every record read from its file
RECURSIVE FreshVisit(_, _, _, _), FreshVisitAll(_, _, _, _)
FreshVisit(acc, fqcn, cur, d) ==
    IF fqcn \in acc.seen THEN acc
    ELSE LET data == load_json(fqcn)
             next == [seen |-> acc.seen \cup {fqcn},
                      order |-> IF fqcn \in Range(acc.order) THEN acc.order
                                ELSE Append(acc.order, fqcn),
                      map |-> IF Truthy(data)
                              THEN MapPut(acc.map, fqcn, _normalize_listish(Get(data, "ensures")))
                              ELSE MapPut(acc.map, fqcn, <<>>)]
         IN IF Truthy(data) /\ cur < d
            THEN FreshVisitAll(next, _normalize_listish(Get(data, "dependency")), cur + 1, d)
            ELSE next
FreshVisitAll(acc, items, cur, d) ==
    IF items = <<>> THEN acc
    ELSE FreshVisitAll(FreshVisit(acc, Head(items), cur, d), Tail(items), cur, d)

\* the (order, map) of a resolution that is the first thing the process does
FreshEnsures(t, d) ==
    LET primary == load_json(t)
        acc == IF Truthy(primary)
               THEN FreshVisitAll(FreshAcc(t),
                                  SelectSeq(DependencyOrEmpty(primary), LAMBDA dep : dep # ""),
                                  1, d)
               ELSE FreshAcc(t)
    IN <<acc.order, acc.map>>

RECURSIVE FreshConstraintsLoop(_, _, _)
FreshConstraintsLoop(acc, items, t) ==
    IF items = <<>> THEN acc
    ELSE LET dep == Head(items)
             data == load_json(dep)
             next == IF dep = t \/ dep \in acc.seen THEN acc
                     ELSE [seen |-> acc.seen \cup {dep},
                           order |-> Append(acc.order, dep),
                           map |-> IF Truthy(data)
                                   THEN MapPut(acc.map, dep, ExtractConstraints(data))
                                   ELSE MapPut(acc.map, dep, <<>>)]
         IN FreshConstraintsLoop(next, Tail(items), t)

FreshConstraints(t) ==
    LET primary == load_json(t)
        start == [seen |-> {}, order |-> <<>>, map |-> EmptyMap]
        acc == IF Truthy(primary)
               THEN FreshConstraintsLoop(start, DependencyOrEmpty(primary), t)
               ELSE start
    IN <<acc.order, acc.map>>

\* a visit of the running call read a record that an earlier call had cached
AnsweredFromCache == \E i \in 1..Len(visits) : visits[i].cached

\* C21: over an unchanged rule store, whatever resolutions ran before in the
\* process and whatever they left in the rule cache, the (order, map) a call
\* returns for its target is the one a first call on fresh locals returns.
C21_ResultIndependentOfEarlierCalls ==
    /\ EnsuresDone => <<order, dep_map>> = FreshEnsures(target, depth)
    /\ ConstraintsDone => <<order, dep_map>> = FreshConstraints(target)

C21_Witness ==
    /\ EnsuresDone /\ resolver = CachingResolver
    /\ Len(order) >= 2
    /\ depth >= 2
    /\ AnsweredFromCache


(***************************************************************************)
(* process_rule: one rule file taken through retrieval and generation      *)
(***************************************************************************)
MaxRules == 2

Writers == {LlmWriter, LlmWriterOllama, SecureWriter}
RuleFileStates == {"readable", "unreadable"}
\* what a provider call does: a usable value, a raised error, a response of
\* another shape than the code reads
ProviderReplies == {"ok", "error", "malformed"}

\* llm_writer.py has no retrieval step; the other two embed the query when an
\* index is at hand
Embeds(v, rag) == rag /\ v # LlmWriter

\* _embed_texts: client.embeddings.create raising, or a response without the
\* rows it reads (RuntimeError / AttributeError)
EmbeddingRaises(v, emb) == emb # "ok"

\* generate_explanation: the call raising, or resp.choices[0].message.content
\* failing; _generate_text of the Ollama copy falls back to str(resp)
CompletionRaises(v, comp) ==
    IF v = LlmWriterOllama THEN comp = "error" ELSE comp # "ok"

\* only llm_code_writer_secure.py has the retrieval block inside try/except
EmbeddingCaught(v) == v = SecureWriter
\* only llm_code_writer_secure.py calls the completion outside try/except
CompletionCaught(v) == v # SecureWriter

ReadErrorLine == "could not read the rule file"
RagDisabledLine == "[WARN] RAG disabled (build failed)"
ExplanationErrorLine == "LLM explanation error"

process_rule(v, file, rag, emb, comp) ==
    IF file = "unreadable"
    THEN [outcome |-> "no_result", stderr |-> <<ReadErrorLine>>, provider_raised |-> FALSE]
    ELSE LET embFailed == Embeds(v, rag) /\ EmbeddingRaises(v, emb)
             warned == IF embFailed THEN <<RagDisabledLine>> ELSE <<>>
         IN IF embFailed /\ ~EmbeddingCaught(v)
            THEN [outcome |-> "escaped", stderr |-> <<>>, provider_raised |-> TRUE]
            ELSE IF CompletionRaises(v, comp)
            THEN IF CompletionCaught(v)
                 THEN [outcome |-> "no_result",
                       stderr |-> Append(warned, ExplanationErrorLine),
                       provider_raised |-> TRUE]
                 ELSE [outcome |-> "escaped", stderr |-> warned, provider_raised |-> TRUE]
            ELSE [outcome |-> "result", stderr |-> warned, provider_raised |-> embFailed]

\* the caller hands the next rule to process_rule; an exception that left
\* process_rule has ended the caller
ProcessRule(v, file, rag, emb, comp) ==
    /\ run.outcome # "escaped"
    /\ run.done < MaxRules
    /\ (v = LlmWriter => ~rag)
    /\ LET r == process_rule(v, file, rag, emb, comp)
       IN run' = [variant |-> v, file |-> file, rag |-> rag, emb |-> emb, comp |-> comp,
                  outcome |-> r.outcome, stderr |-> r.stderr,
                  provider_raised |-> r.provider_raised, done |-> run.done + 1]
    /\ UNCHANGED <<depVars, parseVars, indexVars, chunkVars, ruleVars, norm, http>>

InitRun ==
    /\ store = StoreOf(MissingFile, MissingFile, MissingFile)
    /\ IdleDeps
    /\ IdleParse
    /\ IdleIndex
    /\ IdleChunk
    /\ IdleRules
    /\ IdleAux

NextRun ==
    \E v \in Writers, file \in RuleFileStates, rag \in BOOLEAN,
       emb \in ProviderReplies, comp \in ProviderReplies :
        ProcessRule(v, file, rag, emb, comp)

SpecRun == InitRun /\ [][NextRun]_vars

\* C22: when the embedding or the completion provider fails while a rule is
\* processed, process_rule reports the error and returns without a result, and
\* the failure never leaves process_rule, so the caller can go on to the next rule.
C22_ProviderFailureStaysInProcessRule ==
    /\ run.outcome # "escaped"
    /\ run.provider_raised => run.outcome = "no_result" /\ run.stderr # <<>>

\* what holds of all three copies: an unreadable rule file is reported and gives
\* no result, without any provider call
UnreadableRuleGivesNoResult ==
    run.file = "unreadable" =>
        run.outcome = "no_result" /\ run.stderr = <<ReadErrorLine>> /\ ~run.provider_raised


(***************************************************************************)
(* clean_item and _normalize_listish, character by character               *)
(***************************************************************************)
MaxItemLen == 3

Comma == ","
ListishChars == {"a", Comma, Blank}
ListishStrings == SeqsUpTo(ListishChars, MaxItemLen)

TextItem(s) == [t |-> "str", s |-> s]
\* an entry or a value that is not a string, such as the number 7
NumberItem == [t |-> "num"]
ListishItems == {TextItem(s) : s \in ListishStrings} \cup {NumberItem}
\* the lists of at most two entries
ListishLists == {<<>>} \cup {<<x>> : x \in ListishItems}
                  \cup {<<x, y>> : x \in ListishItems, y \in ListishItems}
ListishValues ==
    {NoneVal, NumberItem} \cup {TextItem(s) : s \in ListishStrings}
        \cup {[t |-> "list", items |-> l] : l \in ListishLists}

\* str(v)
Str(v) == IF v.t = "str" THEN v.s ELSE <<"7">>

\* s.lstrip(",")
RECURSIVE LStripCommas(_)
LStripCommas(s) == IF s # <<>> /\ Head(s) = Comma THEN LStripCommas(Tail(s)) ELSE s

\* clean_item of the three writers
CleanItem(v) ==
    IF v.t # "str" THEN Str(v)
    ELSE LET s2 == StripText(v.s)
         IN IF s2 # <<>> /\ Head(s2) = Comma THEN StripText(LStripCommas(s2)) ELSE s2

\* _normalize_listish of the three writers
NormalizeListish(value) ==
    IF value.t = "none" THEN <<>>
    ELSE IF value.t = "list"
        THEN LET kept == SelectSeq(value.items, LAMBDA v : StripText(Str(v)) # <<>>)
             IN [i \in 1..Len(kept) |-> CleanItem(kept[i])]
    ELSE IF value.t = "str"
        THEN LET val == StripText(value.s)
             IN IF val # <<>> THEN <<val>> ELSE <<>>
    ELSE <<CleanItem(value)>>

NormalizeCall(value) ==
    /\ ~norm.called
    /\ norm' = [called |-> TRUE, value |-> value, out |-> NormalizeListish(value)]
    /\ UNCHANGED <<depVars, parseVars, indexVars, chunkVars, ruleVars, run, http>>

\* the caller is done with the list
ForgetNorm ==
    /\ norm.called
    /\ norm' = NoNorm
    /\ UNCHANGED <<depVars, parseVars, indexVars, chunkVars, ruleVars, run, http>>

InitNorm ==
    /\ store = StoreOf(MissingFile, MissingFile, MissingFile)
    /\ IdleDeps
    /\ IdleParse
    /\ IdleIndex
    /\ IdleChunk
    /\ IdleRules
    /\ IdleAux

NextNorm ==
    \/ \E value \in ListishValues : NormalizeCall(value)
    \/ ForgetNorm

SpecNorm == InitNorm /\ [][NextNorm]_vars

Trimmed(s) == StripText(s) = s

\* C23: _normalize_listish gives [] for None, one entry for a bare string and
\* the cleaned entries for a list, and in every case each entry of the result
\* is trimmed, non-empty and does not start with a comma.
C23_EntriesTrimmedNonEmptyNoLeadingComma ==
    norm.called =>
        /\ norm.value.t = "none" => norm.out = <<>>
        /\ \A i \in 1..Len(norm.out) :
              /\ Trimmed(norm.out[i])
              /\ norm.out[i] # <<>>
              /\ Head(norm.out[i]) # Comma

\* what the code does give: None maps to [], a bare string to at most one
\* entry, a list to at most as many entries as it has, and every entry is trimmed
EntriesTrimmed ==
    norm.called =>
        /\ norm.value.t = "none" => norm.out = <<>>
        /\ norm.value.t = "str" => Len(norm.out) <= 1
        /\ norm.value.t = "list" => Len(norm.out) <= Len(norm.value.items)
        /\ \A i \in 1..Len(norm.out) : Trimmed(norm.out[i])


(***************************************************************************)
(* Rule-section parser: repeated headers and header words inside a line    *)
(***************************************************************************)
\* the matches of header h, by index
OccurrencesOf(ms, h) == {i \in 1..Len(ms) : ms[i].header = h}

LastOccurrence(ms, h) == CHOOSE i \in OccurrencesOf(ms, h) : \A j \in OccurrencesOf(ms, h) : j <= i

BodyOf(ms, i) == TrimmedLines(text, ms[i].end, NextHeaderStart(ms, i))

\* C24: when a header occurs more than once in the text, the returned mapping
\* holds for it only the body that follows its last occurrence; the bodies of
\* the earlier occurrences are not merged into it.
C24_LastOccurrenceWins ==
    parser # "none" =>
        /\ DOMAIN parsed = {Matches[i].header : i \in 1..Len(Matches)}
        /\ \A h \in DOMAIN parsed : parsed[h] = BodyOf(Matches, LastOccurrence(Matches, h))

C24_Witness ==
    /\ parser \in {LlmWriter, SecureWriter}
    /\ \E h \in DOMAIN parsed :
          \E i \in OccurrencesOf(Matches, h) :
             /\ i < LastOccurrence(Matches, h)
             /\ BodyOf(Matches, i) # <<>>
             /\ parsed[h] # <<>>
             /\ BodyOf(Matches, i) # parsed[h]
             /\ parsed[h] = BodyOf(Matches, LastOccurrence(Matches, h))

\* position p holds a header word that stands as a word of its own inside a line
MidLineHeaderWord(p) ==
    /\ text[p] \in Range(SectionsFull)
    /\ p > 1 /\ text[p - 1] # Newline
    /\ text[p - 1] \notin WordTokens
    /\ p = Len(text) \/ text[p + 1] \notin WordTokens

StartsSection(ms, p) == \E i \in 1..Len(ms) : ms[i].start = p

\* the section whose region holds position p
Encloses(ms, i, p) == ms[i].end <= p /\ p < NextHeaderStart(ms, i)

\* C25: in the line-anchored parser of llm_code_writer_secure.py a header word
\* that does not begin a line never starts a section and stays, with the whole
\* region around it, in the body of the enclosing section; the lenient parser
\* of llm_writer.py starts a section at every such word.
C25_MidLineHeaderWord ==
    \A p \in 1..Len(text) :
        MidLineHeaderWord(p) =>
            /\ parser = SecureWriter =>
                  /\ ~StartsSection(Matches, p)
                  /\ \A i \in 1..Len(Matches) :
                        Encloses(Matches, i, p)
                            /\ i = LastOccurrence(Matches, Matches[i].header) =>
                          /\ NonWhite(Flatten(parsed[Matches[i].header]))
                                = NonWhite(SubSeq(text, Matches[i].end,
                                                  NextHeaderStart(Matches, i) - 1))
                          /\ \E n \in 1..Len(parsed[Matches[i].header]) :
                                text[p] \in Range(parsed[Matches[i].header][n])
            /\ parser \in {LlmWriter, LlmWriterOllama} =>
                  /\ StartsSection(Matches, p)
                  /\ text[p] \in DOMAIN parsed

C25_Witness ==
    /\ parser = SecureWriter
    /\ \E p \in 1..Len(text) :
          /\ MidLineHeaderWord(p)
          /\ \E i \in 1..Len(Matches) :
                /\ Encloses(Matches, i, p)
                /\ i = LastOccurrence(Matches, Matches[i].header)
                /\ text[p] \notin DOMAIN parsed
                /\ \E n \in 1..Len(parsed[Matches[i].header]) :
                      /\ text[p] \in Range(parsed[Matches[i].header][n])
                      /\ Len(parsed[Matches[i].header][n]) >= 3


(***************************************************************************)
(* OllamaClient._post and the two wrappers bound to the client             *)
(***************************************************************************)
\* retries = 2
retries == 2
\* backoff = 0.5, in milliseconds
backoff == 500

EmbeddingsCreate == "embeddings_create"
GenerateCreate == "generate_create"
Wrappers == {EmbeddingsCreate, GenerateCreate}

\* what requests.post, raise_for_status and resp.json() give for one request
JsonReply(v) == [kind |-> "json", v |-> v]
NonJsonReply == [kind |-> "non_json", v |-> ""]
\* a RequestException: ConnectionError, Timeout, HTTPError from raise_for_status
FailureReply(exc) == [kind |-> "failure", v |-> exc]
RequestExceptions == {"ConnectionError", "Timeout", "HTTPError"}
JsonBodies == {"json1", "json2"}
Replies == {JsonReply(v) : v \in JsonBodies} \cup {NonJsonReply}
              \cup {FailureReply(x) : x \in RequestExceptions}

FirstPath(fn) == IF fn = EmbeddingsCreate THEN "/api/embeddings" ELSE "/api/generate"
FallbackPath == "/api/completions"

MayRetryInclusive(attempt) == attempt <= retries
\* if attempt < retries
MayRetry(attempt) == attempt < retries

\* time.sleep(backoff * (1 + attempt))
SleepFor(attempt) == backoff * (1 + attempt)

\* except RequestException in generate_create: only the first endpoint has a fallback
HasFallback(h) == h.fn = GenerateCreate /\ h.path = FirstPath(GenerateCreate)

\* client.embeddings.create / client.generate.create enter _post
PostStart(fn) ==
    /\ http.pc = "idle"
    /\ http' = [NoHttp EXCEPT !.fn = fn, !.pc = "request", !.path = FirstPath(fn),
                              !.posts = 1]
    /\ UNCHANGED <<depVars, parseVars, indexVars, chunkVars, ruleVars, run, norm>>

\* one iteration of `for attempt in range(retries + 1)`
RequestStep(reply) ==
    /\ http.pc = "request"
    /\ LET seen_replies == Append(http.replies, reply)
       IN http' =
            IF reply.kind = "json"
            THEN [http EXCEPT !.replies = seen_replies, !.pc = "done",
                              !.outcome = "returned", !.value = reply.v]
            ELSE IF reply.kind = "non_json"
            THEN [http EXCEPT !.replies = seen_replies, !.pc = "done",
                              !.outcome = "raised", !.error = "RuntimeError"]
            ELSE IF MayRetry(http.attempt)
            THEN [http EXCEPT !.replies = seen_replies,
                              !.sleeps = Append(@, SleepFor(http.attempt)),
                              !.attempt = @ + 1]
            ELSE IF HasFallback(http)
            THEN [http EXCEPT !.path = FallbackPath, !.attempt = 0, !.replies = <<>>,
                              !.sleeps = <<>>, !.posts = @ + 1]
            ELSE [http EXCEPT !.replies = seen_replies, !.pc = "done",
                              !.outcome = "raised", !.error = reply.v]
    /\ UNCHANGED <<depVars, parseVars, indexVars, chunkVars, ruleVars, run, norm>>

\* the caller has the value or the exception
PostReturn ==
    /\ http.pc = "done"
    /\ http' = NoHttp
    /\ UNCHANGED <<depVars, parseVars, indexVars, chunkVars, ruleVars, run, norm>>

InitPost ==
    /\ store = StoreOf(MissingFile, MissingFile, MissingFile)
    /\ IdleDeps
    /\ IdleParse
    /\ IdleIndex
    /\ IdleChunk
    /\ IdleRules
    /\ IdleAux

Request == \E reply \in Replies : RequestStep(reply)

NextPost ==
    \/ \E fn \in Wrappers : PostStart(fn)
    \/ Request
    \/ PostReturn

SpecPost == InitPost /\ [][NextPost]_vars

\* requests.post is called with timeout=self.timeout, so every request ends
FairSpecPost == SpecPost /\ WF_vars(Request)

AllFailures(rs) == \A i \in 1..Len(rs) : rs[i].kind = "failure"

LinearBackoff == <<500, 1000>>

\* C26: a _post call ends after at most 3 requests, returns the decoded JSON of
\* the first request that succeeds, sleeps 0.5 s and then 1.0 s between failed
\* attempts, and after the third failed request raises that failure.
C26_PostBoundedRetries ==
    /\ (http.pc = "request") ~> (http.pc = "done")
    /\ [](/\ Len(http.replies) <= 3
          /\ Len(http.sleeps) <= 2
          /\ \A i \in 1..Len(http.sleeps) : http.sleeps[i] = LinearBackoff[i]
          /\ http.pc = "request" =>
                AllFailures(http.replies) /\ Len(http.sleeps) = Len(http.replies)
          /\ http.pc = "done" =>
                /\ AllFailures(SubSeq(http.replies, 1, Len(http.replies) - 1))
                /\ Len(http.sleeps) = Min(Len(http.replies) - 1, 2)
                /\ http.outcome = "returned" =>
                      http.replies[Len(http.replies)] = JsonReply(http.value)
                /\ http.outcome = "raised" /\ http.error \in RequestExceptions =>
                      /\ Len(http.replies) = 3
                      /\ http.replies[3] = FailureReply(http.error)
                      /\ http.sleeps = LinearBackoff)

C26_Witness ==
    /\ http.pc = "done" /\ http.fn = EmbeddingsCreate
    /\ http.outcome = "raised" /\ http.error = "Timeout"
    /\ Len(http.replies) = 3
    /\ http.replies[1] # http.replies[3]
    /\ http.sleeps = <<500, 1000>>


(***************************************************************************)
(* Resolver: rule stores in which a class is reached by two paths          *)
(***************************************************************************)
\* a class that dependency lists name and that has no rule file
UnfiledClass == "D"

FilesNaming(n) ==
    {JsonFile(d) : d \in [1..n -> Classes \cup {UnfiledClass}]}
        \cup (IF n = 0 THEN {MissingFile, UnreadableFile} ELSE {})

\* the rule stores with one dependency entry more than those of InitDeps,
\* over one more class name
InitReach ==
    /\ \E la \in 0..(MaxEdges + 1) : \E lb \in 0..(MaxEdges + 1 - la) :
         \E lc \in 0..(MaxEdges + 1 - la - lb) :
           \E fa \in FilesNaming(la), fb \in FilesNaming(lb), fc \in FilesNaming(lc) :
              store = StoreOf(fa, fb, fc)
    /\ IdleDeps
    /\ IdleParse
    /\ IdleIndex
    /\ IdleChunk
    /\ IdleRules
    /\ IdleAux

NextReach ==
    \/ \E t \in Classes, d \in 1..MaxDepth : StartEnsures(t, d)
    \/ VisitStep
    \/ ReturnDeps

SpecReach == InitReach /\ [][NextReach]_vars

\* C27: for every rule store and every depth d >= 1, every class other than the
\* target that is within d dependency edges of the target through present
\* records is in the order collect_dependency_ensures(target, depth=d) returns,
\* whatever the order of the dependency lists.
C27_EveryClassWithinDepthListed ==
    EnsuresDone => (Within(target, depth) \ {target}) \subseteq Range(order)

\* what the traversal does reach: the direct dependencies, and every class whose
\* list was expanded brings its own dependencies
DirectDependenciesListed ==
    EnsuresDone =>
        /\ HasRecord(target) => (DepsOf(target) \ {target}) \subseteq Range(order)
        /\ \A i \in 1..Len(visits) :
              visits[i].expanded =>
                  (DepsOf(visits[i].fqcn) \ {target}) \subseteq Range(order)


(***************************************************************************)
(* Resolver: rule stores whose dependency lists may hold an empty string   *)
(***************************************************************************)
EmptyName == ""

FilesListing(n) ==
    {JsonFile(d) : d \in [1..n -> Classes \cup {EmptyName}]}
        \cup (IF n = 0 THEN {MissingFile, UnreadableFile} ELSE {})

InitLists ==
    /\ \E la \in 0..MaxEdges : \E lb \in 0..(MaxEdges - la) :
         \E lc \in 0..(MaxEdges - la - lb) :
           \E fa \in FilesListing(la), fb \in FilesListing(lb), fc \in FilesListing(lc) :
              store = StoreOf(fa, fb, fc)
    /\ IdleDeps
    /\ IdleParse
    /\ IdleIndex
    /\ IdleChunk
    /\ IdleRules
    /\ IdleAux

SpecLists == InitLists /\ [][NextDeps]_vars

EntriesNonEmpty == \A c \in Classes : EmptyName \notin DepsOf(c)

\* the target's declared dependencies, first occurrences, without the target
DirectOrder == IF HasRecord(target) THEN FirstSeen(DeclaredDeps(store[target]), target) ELSE <<>>

\* C28: over a rule store whose dependency entries are non-empty strings,
\* collect_dependency_constraints(target) and collect_dependency_ensures(target,
\* depth=1) return the same order, and in both results the keys of the map are
\* the names in order.
C28_ConstraintsOrderIsDepthOneOrder ==
    EntriesNonEmpty =>
        /\ ConstraintsDone =>
              /\ order = DirectOrder
              /\ order = FreshEnsures(target, 1)[1]
              /\ DOMAIN dep_map = Range(order)
        /\ EnsuresDone /\ depth = 1 =>
              /\ order = DirectOrder
              /\ order = FreshConstraints(target)[1]
              /\ DOMAIN dep_map = Range(order)

C28_Witness ==
    /\ EntriesNonEmpty
    /\ EnsuresDone /\ depth = 1
    /\ Len(order) = 2
    /\ Len(DeclaredDeps(store[target])) = 3
    /\ \E d \in Range(order) : ~HasRecord(d)
    /\ order = FreshConstraints(target)[1]

\* an empty entry is where the two collectors part: constraints lists it,
\* ensures skips it
EmptyEntryListedByConstraintsOnly ==
    (pc = "done" /\ HasRecord(target) /\ EmptyName \in DepsOf(target)) =>
        (EmptyName \in Range(order)) = (op = "constraints")


(***************************************************************************)
(* Chunker: what becomes of the paragraphs                                 *)
(***************************************************************************)
\* para stands, unbroken, somewhere in chunk
ContainedIn(para, chunk) ==
    \E from \in 1..(Len(chunk) - Len(para) + 1) :
        SubSeq(chunk, from, from + Len(para) - 1) = para

ParagraphsFit ==
    \A i \in 1..Len(TrimmedNonBlankLines) :
        Len(TrimmedNonBlankLines[i]) <= raw_chunks.max_chars

\* C29: for every text whose paragraphs each fit within max_chars, every
\* paragraph stands whole in at least one returned chunk, also after the tail
\* of the previous chunk is prepended and the result is cut to max_chars.
C29_EveryParagraphInSomeChunk ==
    (raw_chunks.called /\ ParagraphsFit) =>
        \A i \in 1..Len(TrimmedNonBlankLines) :
            \E n \in 1..Len(raw_chunks.chunks) :
                ContainedIn(TrimmedNonBlankLines[i], raw_chunks.chunks[n])

\* what the packing loop keeps before the overlap is added: every paragraph
\* stands whole in one packed chunk, and the first returned chunk is the first
\* packed chunk
PackedChunksHoldEveryParagraph ==
    raw_chunks.called =>
        LET packed == Pack(Paragraphs(raw_text), <<>>, <<>>, raw_chunks.max_chars)
        IN /\ \A i \in 1..Len(TrimmedNonBlankLines) :
                \E n \in 1..Len(packed) : ContainedIn(TrimmedNonBlankLines[i], packed[n])
           /\ Len(packed) = Len(raw_chunks.chunks)
           /\ packed # <<>> => raw_chunks.chunks[1] = packed[1]


(***************************************************************************)
(* Sanitized-rule loader over rule files that change while the process     *)
(* runs                                                                    *)
(***************************************************************************)
\* a file is absent, holds a record, or holds text that does not parse
ChangingFileStates(key) == {MissingFile, MalformedFile, RuleRecord(key)}

\* between two calls the file of a pair is created, rewritten or deleted
FileChanges(key, file) ==
    /\ file # rule_files[key]
    /\ rule_files' = [rule_files EXCEPT ![key] = file]
    /\ loaded' = NoLoad
    /\ UNCHANGED <<sanitized_cache, lookups, depVars, parseVars, indexVars, chunkVars, auxVars>>

NextChanging ==
    \/ \E fqcn \in RuleClasses, languages \in LanguageLists :
          LoadSanitizedRule(fqcn, languages)
    \/ \E key \in RuleKeys : \E file \in ChangingFileStates(key) : FileChanges(key, file)

InitChanging ==
    /\ rule_files \in {f \in RuleStores : \A key \in RuleKeys : f[key] \in ChangingFileStates(key)}
    /\ sanitized_cache = [key \in RuleKeys |-> NotCached]
    /\ lookups = [key \in RuleKeys |-> 0]
    /\ loaded = NoLoad
    /\ store = StoreOf(MissingFile, MissingFile, MissingFile)
    /\ IdleDeps
    /\ IdleParse
    /\ IdleIndex
    /\ IdleChunk
    /\ IdleAux

SpecChanging == InitChanging /\ [][NextChanging]_vars

\* the cached outcome of the first listed language whose entry is not None
RECURSIVE FirstCachedOutcome(_, _)
FirstCachedOutcome(fqcn, languages) ==
    IF languages = <<>> THEN PyNone
    ELSE IF sanitized_cache[<<fqcn, Head(languages)>>].data # PyNone
        THEN sanitized_cache[<<fqcn, Head(languages)>>].data
    ELSE FirstCachedOutcome(fqcn, Tail(languages))

\* the file of the pair no longer says what the cache holds for it
FileDiffersFromCache(key) ==
    /\ sanitized_cache[key].cached
    /\ sanitized_cache[key].data # load_json_quiet(rule_files[key], key).data

\* C30: an entry of the rule cache, a record or absent, never changes once it
\* is written, and every later load_sanitized_rule call of the process returns
\* the cached outcome for the pair, also when the file of the pair has been
\* created, changed or deleted since.
C30_CacheEntriesNeverChange ==
    /\ [][\A key \in RuleKeys :
            sanitized_cache[key].cached =>
                /\ sanitized_cache'[key] = sanitized_cache[key]
                /\ lookups'[key] = lookups[key]]_vars
    /\ [](loaded.fn = "load_sanitized_rule" =>
            /\ loaded.data = FirstCachedOutcome(loaded.fqcn, loaded.languages)
            /\ \A key \in Range(loaded.looked_up) : sanitized_cache[key].cached)

\* a call made after the files changed: the pair cached as absent now has a
\* record, the pair cached with a record has lost its file, and the call
\* reads no file and returns the cached record
C30_Witness ==
    /\ loaded.fn = "load_sanitized_rule" /\ loaded.languages = <<"en", "de">>
    /\ loaded.looked_up = <<>>
    /\ sanitized_cache[<<loaded.fqcn, "en">>] = Remember(PyNone)
    /\ rule_files[<<loaded.fqcn, "en">>] = RuleRecord(<<loaded.fqcn, "en">>)
    /\ rule_files[<<loaded.fqcn, "de">>] = MissingFile
    /\ loaded.data = RuleRecord(<<loaded.fqcn, "de">>)
    /\ FileDiffersFromCache(<<loaded.fqcn, "de">>)


====
